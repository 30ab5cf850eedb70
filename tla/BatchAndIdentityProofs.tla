------------------------ MODULE BatchAndIdentityProofs ------------------------
(***************************************************************************)
(* Proofs about two components, whose names do not clash.                  *)
(*                                                                         *)
(* CompanyIdentity: type correctness, that a resolution which ends in a    *)
(* conflict leaves nothing behind, that the registry of keys does what     *)
(* IdentityRegistry promises, step by step, and that a resolved row names  *)
(* the owner of its key.                                                   *)
(*                                                                         *)
(* ImportBatch: type correctness for every set of workers and requests,    *)
(* the pause flags and the deletion for any number of requests served one  *)
(* after another.                                                          *)
(***************************************************************************)
EXTENDS CompanyIdentity, ImportBatch, FiniteSetTheorems, WellFoundedInduction, TLAPS

-----------------------------------------------------------------------------
(* The inductive invariant *)

\* A promotion or a review that claims keys knows for whom.
Knows(w) == w.step \in {"cui", "nr", "mark"} => w.company \in Companies

IInv ==
    /\ TypeOK
    /\ Fits(Now)
    /\ \A b \in Contacts : Knows(promoter[b]) /\ Knows(reviewer[b])

-----------------------------------------------------------------------------
(* Sets *)

LEMMA LeastNat ==
    ASSUME NEW T \in SUBSET Nat, T # {}
    PROVE  \E t \in T : \A u \in T : t <= u
<1> DEFINE R == OpToRel(<, Nat)
<1>1. IsWellFoundedOn(R, Nat)
  BY NatLessThanWellFounded
<1>2. PICK x \in T : \A y \in T : ~ (<<y, x>> \in R)
  BY <1>1, WFMin
<1>3. \A a \in Nat, b \in Nat : a < b => <<a, b>> \in R
  BY DEF OpToRel
<1> HIDE DEF R
<1>4. ASSUME NEW u \in T PROVE x <= u
  <2>1. u \in Nat /\ x \in Nat /\ ~ (u < x)
    BY <1>2, <1>3
  <2> QED
    BY <2>1
<1> QED
  BY <1>4

LEMMA ElementOf == \A S : S # {} => The(S) \in S
  BY DEF The

\* Sets of at most two elements, as the owners of two keys are.
LEMMA PairCard ==
    ASSUME NEW S, NEW x, NEW y, S \subseteq {x, y}
    PROVE  /\ S = {} \/ Cardinality(S) \in {1, 2}
           /\ Cardinality(S) = 1 => \E z : S = {z}
           /\ Cardinality(S) = 2 => x # y /\ S = {x, y}
<1>1. IsFiniteSet({x}) /\ Cardinality({x}) = 1 /\ IsFiniteSet({y}) /\ Cardinality({y}) = 1
  BY FS_Singleton
<1>2. IsFiniteSet({x} \cup {y}) /\ (x # y => Cardinality({x} \cup {y}) = 2)
  <2>1. y \in {x} <=> y = x
    OBVIOUS
  <2> QED
    BY <1>1, <2>1, FS_AddElement
<1>3. {x} \cup {y} = {x, y}
  OBVIOUS
<1>4. IsFiniteSet(S) /\ Cardinality(S) <= Cardinality({x, y}) /\ Cardinality(S) \in Nat
      /\ (Cardinality(S) = Cardinality({x, y}) => S = {x, y})
  BY <1>2, <1>3, FS_Subset, FS_CardinalityType
<1>5. (Cardinality(S) = 0 => S = {}) /\ (Cardinality(S) = 1 => \E z : S = {z})
  BY <1>4, FS_EmptySet, FS_Singleton
<1>6. CASE x = y
  <2>1. Cardinality({x, y}) = 1
    BY <1>1, <1>6
  <2> QED
    BY <1>4, <1>5, <2>1
<1>7. CASE x # y
  <2>1. Cardinality({x, y}) = 2
    BY <1>2, <1>3, <1>7
  <2> QED
    BY <1>4, <1>5, <1>7, <2>1
<1> QED
  BY <1>6, <1>7

-----------------------------------------------------------------------------
(* The database as a value *)

World == [co : [Companies -> Company], own : [Keys -> Companies \cup {Nil}],
          ct : [Contacts -> Contact]]

LEMMA KeyFacts ==
    /\ Nil \notin Keys /\ Nil \notin Companies
    /\ \A k \in Cuis \cup {Nil} : k # Nil => k \in Keys
    /\ \A k \in Nrs \cup {Nil} : k # Nil => k \in Keys
  BY ConstantsAssumption DEF Keys

LEMMA NowTyped == TypeOK => Now \in World /\ Now.own = owner /\ Now.co = company /\ Now.ct = contact
  BY DEF TypeOK, Now, World

\* The keys that the row of b names.
Named(w, b) == {w.ct[b].cui, w.ct[b].nr} \ {Nil}

LEMMA NamedTyped ==
    ASSUME NEW w \in World, NEW b \in Contacts
    PROVE  /\ w.ct[b] \in Contact
           /\ w.ct[b].cui \in Cuis \cup {Nil} /\ w.ct[b].nr \in Nrs \cup {Nil}
           /\ Named(w, b) \subseteq Keys
<1>1. w.ct[b] \in Contact
  BY DEF World
<1>2. w.ct[b].cui \in Cuis \cup {Nil} /\ w.ct[b].nr \in Nrs \cup {Nil}
  BY <1>1 DEF Contact
<1> QED
  BY <1>1, <1>2, KeyFacts DEF Named

LEMMA RejectedTyped ==
    ASSUME NEW w \in World, NEW b \in Contacts, NEW outcome \in Statuses,
           NEW c \in Companies \cup {Nil}
    PROVE  /\ Rejected(w, b, outcome, c) \in World
           /\ Rejected(w, b, outcome, c).own = w.own /\ Rejected(w, b, outcome, c).co = w.co
<1> DEFINE x == [w.ct[b] EXCEPT !.status = outcome, !.skip = TRUE, !.company = c]
           ct == [w.ct EXCEPT ![b] = x]
<1>1. x \in Contact
  BY NamedTyped DEF Contact
<1>2. Rejected(w, b, outcome, c) = [w EXCEPT !.ct = ct]
  BY DEF Rejected, World
<1> HIDE DEF x
<1>3. ct \in [Contacts -> Contact]
  BY <1>1 DEF World
<1> HIDE DEF ct
<1> QED
  BY <1>2, <1>3 DEF World

LEMMA IdentifiedCompany ==
    ASSUME NEW entry \in Company, NEW cui \in Cuis \cup {Nil}, NEW nr \in Nrs \cup {Nil}
    PROVE  Identified(entry, cui, nr) \in Company
  BY DEF Identified, Company

LEMMA IdentifiedContact ==
    ASSUME NEW entry \in Contact, NEW cui \in Cuis \cup {Nil}, NEW nr \in Nrs \cup {Nil}
    PROVE  Identified(entry, cui, nr) \in Contact
  BY DEF Identified, Contact

LEMMA FreshTyped ==
    ASSUME NEW w, Made(w) # Companies
    PROVE  Fresh(w) \in Companies
<1>1. \E c \in Companies : ~w.co[c].made
  BY DEF Made
<1> QED
  BY <1>1 DEF Fresh

LEMMA InsertTyped ==
    ASSUME NEW w \in World, Made(w) # Companies, NEW cui \in Cuis \cup {Nil},
           NEW nr \in Nrs \cup {Nil}
    PROVE  /\ Insert(w, cui, nr) \in World
           /\ Insert(w, cui, nr).own = w.own /\ Insert(w, cui, nr).ct = w.ct
<1> DEFINE x == [made |-> TRUE, cui |-> cui, nr |-> nr]
           co == [w.co EXCEPT ![Fresh(w)] = x]
<1>1. x \in Company
  BY DEF Company
<1>2. Insert(w, cui, nr) = [w EXCEPT !.co = co]
  BY DEF Insert, World
<1> HIDE DEF x
<1>3. co \in [Companies -> Company]
  BY <1>1, FreshTyped DEF World
<1> HIDE DEF co
<1> QED
  BY <1>2, <1>3 DEF World

LEMMA MergeTyped ==
    ASSUME NEW w \in World, NEW p \in Companies, NEW s \in Companies
    PROVE  /\ Merge(w, p, s) \in World
           /\ Merge(w, p, s).own = [k \in Keys |-> IF w.own[k] = s THEN p ELSE w.own[k]]
           /\ \A b \in Contacts : /\ Merge(w, p, s).ct[b].cui = w.ct[b].cui
                                  /\ Merge(w, p, s).ct[b].nr = w.ct[b].nr
<1> DEFINE left1 == [w.co[s] EXCEPT !.cui = Nil, !.nr = Nil]
           gone == [w.co EXCEPT ![s] = left1]
           kept == [gone[p] EXCEPT !.nr = IF @ = Nil THEN w.co[s].nr ELSE @]
           co == [gone EXCEPT ![p] = kept]
           own == [k \in Keys |-> IF w.own[k] = s THEN p ELSE w.own[k]]
           moved(b) == [w.ct[b] EXCEPT !.company = IF @ = s THEN p ELSE @,
                                       !.promoted = IF @ = s THEN p ELSE @]
           ct == [b \in Contacts |-> moved(b)]
<1>1. Merge(w, p, s) = [co |-> co, own |-> own, ct |-> ct]
  BY DEF Merge
<1>2. co \in [Companies -> Company]
  <2>1. w.co[s] \in Company /\ w.co \in [Companies -> Company]
    BY DEF World
  <2>2. left1 \in Company
    BY <2>1 DEF Company
  <2> HIDE DEF left1
  <2>3. gone \in [Companies -> Company]
    BY <2>1, <2>2
  <2> HIDE DEF gone
  <2>4. gone[p] \in Company
    BY <2>3
  <2>5. kept \in Company
    BY <2>1, <2>4 DEF Company
  <2> HIDE DEF kept
  <2> QED
    BY <2>3, <2>5
<1>3. own \in [Keys -> Companies \cup {Nil}]
  BY DEF World
<1>4. ASSUME NEW b \in Contacts
      PROVE  moved(b) \in Contact /\ moved(b).cui = w.ct[b].cui /\ moved(b).nr = w.ct[b].nr
  <2>1. w.ct[b] \in Contact
    BY NamedTyped
  <2> QED
    BY <2>1 DEF Contact
<1> HIDE DEF moved
<1>5. ct \in [Contacts -> Contact] /\ \A b \in Contacts : ct[b] = moved(b)
  BY <1>4
<1> HIDE DEF co, own, ct
<1>6. [co |-> co, own |-> own, ct |-> ct] \in World
  BY <1>2, <1>3, <1>5 DEF World
<1> QED
  BY <1>1, <1>4, <1>5, <1>6 DEF own

\* No key of the row belongs to somebody else.
Clear(w, b, c) == \A k \in Named(w, b) : w.own[k] \in {c, Nil}

LEMMA FinalizeTyped ==
    ASSUME NEW w \in World, NEW b \in Contacts, NEW c \in Companies, Clear(w, b, c)
    PROVE  /\ Finalize(w, b, c) \in World /\ Finalize(w, b, c).ct[b].status = "resolved"
           /\ Finalize(w, b, c).own = [k \in Keys |-> IF k \in Named(w, b) THEN c ELSE w.own[k]]
<1> DEFINE entry == w.ct[b]
           taken == {k \in {entry.cui, entry.nr} \ {Nil} : w.own[k] \notin {c, Nil}}
           co == [w.co EXCEPT ![c] = Identified(@, entry.cui, entry.nr)]
           own == [k \in Keys |-> IF k \in {entry.cui, entry.nr} THEN c ELSE w.own[k]]
           x == [entry EXCEPT !.status = "resolved", !.skip = FALSE, !.company = c]
           ct == [w.ct EXCEPT ![b] = x]
<1>1. taken = {}
  BY DEF Clear, Named
<1>2. Finalize(w, b, c) = [co |-> co, own |-> own, ct |-> ct]
  BY <1>1 DEF Finalize
<1>3. co \in [Companies -> Company]
  <2>1. w.co \in [Companies -> Company]
    BY DEF World
  <2>2. Identified(w.co[c], entry.cui, entry.nr) \in Company
    BY <2>1, NamedTyped, IdentifiedCompany
  <2> QED
    BY <2>1, <2>2
<1>4. own = [k \in Keys |-> IF k \in Named(w, b) THEN c ELSE w.own[k]]
  BY KeyFacts DEF Named
<1>5. own \in [Keys -> Companies \cup {Nil}]
  BY DEF World
<1>6. x \in Contact /\ x.status = "resolved"
  BY NamedTyped DEF Contact, Statuses
<1> HIDE DEF x
<1>7. ct \in [Contacts -> Contact] /\ ct[b].status = "resolved"
  BY <1>6 DEF World
<1> HIDE DEF co, own, ct
<1>8. [co |-> co, own |-> own, ct |-> ct] \in World
  BY <1>3, <1>5, <1>7 DEF World
<1> QED
  BY <1>2, <1>4, <1>7, <1>8

LEMMA UpsertedTyped ==
    ASSUME NEW w \in World, NEW c \in Companies, NEW k \in Keys, NEW b \in Contacts \cup {Nil}
    PROVE  /\ Upserted(w, c, k, b) \in World
           /\ \/ Upserted(w, c, k, b).own = w.own
              \/ w.own[k] \in {c, Nil} /\ Upserted(w, c, k, b).own = [w.own EXCEPT ![k] = c]
<1>1. CASE w.own[k] \notin {c, Nil}
  BY <1>1, RejectedTyped DEF Upserted, Statuses
<1>2. CASE w.own[k] \in {c, Nil}
  <2> DEFINE x == IF k \in Cuis THEN [w.co[c] EXCEPT !.cui = k] ELSE [w.co[c] EXCEPT !.nr = k]
             own == [w.own EXCEPT ![k] = c]
             co == [w.co EXCEPT ![c] = x]
  <2>1. Upserted(w, c, k, b) = [w EXCEPT !.own = own, !.co = co]
    BY <1>2 DEF Upserted, World
  <2>2. w.co[c] \in Company
    BY DEF World
  <2>3. k \notin Cuis => k \in Nrs
    BY DEF Keys
  <2>4. x \in Company
    BY <2>2, <2>3 DEF Company
  <2> HIDE DEF x
  <2>5. co \in [Companies -> Company] /\ own \in [Keys -> Companies \cup {Nil}]
    BY <2>4 DEF World
  <2> HIDE DEF co, own
  <2>6. [w EXCEPT !.own = own, !.co = co] \in World /\ [w EXCEPT !.own = own, !.co = co].own = own
    BY <2>5 DEF World
  <2> QED
    BY <1>2, <2>1, <2>6 DEF own
<1> QED
  BY <1>1, <1>2

-----------------------------------------------------------------------------
(* The cases of detectSingleCompanyId *)

\* Owners of the row's keys are found through the registry.
LEMMA OwnersOfRow ==
    ASSUME NEW w \in World, NEW b \in Contacts
    PROVE  /\ Owners(w, {w.ct[b].cui, w.ct[b].nr}) \subseteq Companies
           /\ Owners(w, {w.ct[b].cui, w.ct[b].nr}) \subseteq {w.own[w.ct[b].cui], w.own[w.ct[b].nr]}
           /\ \A k \in Named(w, b) :
                w.own[k] # Nil => w.own[k] \in Owners(w, {w.ct[b].cui, w.ct[b].nr})
<1>1. Named(w, b) \subseteq Keys
  BY NamedTyped
<1>2. \A k \in Keys : w.own[k] \in Companies \cup {Nil}
  BY DEF World
<1> QED
  BY <1>1, <1>2 DEF Owners, Named

\* A company of the row's cui and another one of its nr_reg_com are merged when the
\* registry gives the row's keys to nobody else.
LEMMA MergeHalvesForms ==
    ASSUME NEW w, NEW b, NEW among \in SUBSET Companies,
           \A h \in Halves(w, b, among) : \A k \in Named(w, b) : w.own[k] \in {h[1], h[2], Nil}
    PROVE  \/ MergeHalves(w, b, among) = Rejected(w, b, "identity_conflict", Nil)
           \/ \E p \in Companies, s \in Companies :
                /\ p # s
                /\ \A k \in Named(w, b) : w.own[k] \in {p, s, Nil}
                /\ MergeHalves(w, b, among) = Finalize(Merge(w, p, s), b, p)
<1>1. CASE Halves(w, b, among) = {}
  BY <1>1 DEF MergeHalves
<1>2. CASE Halves(w, b, among) # {}
  <2> DEFINE h == The(Halves(w, b, among))
  <2>1. h \in Halves(w, b, among)
    BY <1>2, ElementOf
  <2>2. MergeHalves(w, b, among) = Finalize(Merge(w, h[1], h[2]), b, h[1])
    BY <1>2 DEF MergeHalves
  <2> HIDE DEF h
  <2>3. h[1] \in Companies /\ h[2] \in Companies /\ h[1] # h[2]
    BY <2>1 DEF Halves
  <2> QED
    BY <2>1, <2>2, <2>3
<1> QED
  BY <1>1, <1>2

\* An index allows one company for an nr_reg_com.
LEMMA OneHolder ==
    ASSUME NEW w \in World, Fits(w), NEW k \in Nrs \cup {Nil},
           NEW c \in HasNr(w, k), NEW d \in HasNr(w, k)
    PROVE  c = d
  BY DEF HasNr, Fits

DetectedForm(w, b, new) ==
    \/ \E c \in Companies : Clear(w, b, c) /\ new = Finalize(w, b, c)
    \/ \E p \in Companies, s \in Companies :
         /\ p # s
         /\ \A k \in Named(w, b) : w.own[k] \in {p, s, Nil}
         /\ new = Finalize(Merge(w, p, s), b, p)
    \/ new = Rejected(w, b, "identity_conflict", Nil)
    \/ /\ \A k \in Named(w, b) : w.own[k] = Nil
       /\ new = Finalize(Insert(w, w.ct[b].cui, w.ct[b].nr), b, Fresh(w))

LEMMA DetectedForms ==
    ASSUME NEW w \in World, Fits(w), NEW b \in Contacts
    PROVE  DetectedForm(w, b, Detected(w, b))
<1> DEFINE entry == w.ct[b]
           owners == Owners(w, {entry.cui, entry.nr})
           holders == HasCui(w, entry.cui) \cup HasNr(w, entry.nr)
           rivals == IF entry.cui = Nil THEN {} ELSE HasNr(w, entry.nr) \ owners
           new == Detected(w, b)
<1>1. /\ entry \in Contact /\ entry.cui \in Cuis \cup {Nil} /\ entry.nr \in Nrs \cup {Nil}
      /\ Named(w, b) \subseteq Keys
  BY NamedTyped
<1>2. /\ owners \subseteq Companies /\ owners \subseteq {w.own[entry.cui], w.own[entry.nr]}
      /\ \A k \in Named(w, b) : w.own[k] # Nil => w.own[k] \in owners
  BY OwnersOfRow
<1>3. /\ owners = {} \/ Cardinality(owners) \in {1, 2}
      /\ Cardinality(owners) = 1 => \E z : owners = {z}
      /\ Cardinality(owners) = 2 => /\ w.own[entry.cui] # w.own[entry.nr]
                                    /\ owners = {w.own[entry.cui], w.own[entry.nr]}
  <2> DEFINE x == w.own[entry.cui]
             y == w.own[entry.nr]
  <2> HIDE DEF x, y, owners
  <2>1. owners \subseteq {x, y}
    BY <1>2 DEF x, y
  <2>2. /\ owners = {} \/ Cardinality(owners) \in {1, 2}
        /\ Cardinality(owners) = 1 => \E z : owners = {z}
        /\ Cardinality(owners) = 2 => x # y /\ owners = {x, y}
    BY <2>1, PairCard
  <2> QED
    BY <2>2 DEF x, y
<1>4. holders \subseteq Companies /\ rivals \subseteq HasNr(w, entry.nr) /\ rivals \cap owners = {}
      /\ rivals \subseteq Companies
  BY DEF HasCui, HasNr
<1>5. Cardinality({}) = 0
  BY FS_EmptySet
<1>6. new = CASE Cardinality(owners) = 2 ->
                   Finalize(Merge(w, w.own[entry.cui], w.own[entry.nr]), b, w.own[entry.cui])
             [] Cardinality(owners) = 1 /\ rivals # {} -> MergeHalves(w, b, owners \cup rivals)
             [] Cardinality(owners) = 1 /\ rivals = {} -> Finalize(w, b, The(owners))
             [] owners = {} /\ Cardinality(holders) = 2 -> MergeHalves(w, b, holders)
             [] owners = {} /\ Cardinality(holders) = 1 -> Finalize(w, b, The(holders))
             [] OTHER -> Attach(w, b, Remembered(entry))
  BY DEF Detected
<1> HIDE DEF owners, holders, rivals, new
<1>7. CASE Cardinality(owners) = 2
  <2>1. owners # {}
    BY <1>5, <1>7
  <2>2. new = Finalize(Merge(w, w.own[entry.cui], w.own[entry.nr]), b, w.own[entry.cui])
    BY <1>6, <1>7, <2>1
  <2>3. w.own[entry.cui] \in Companies /\ w.own[entry.nr] \in Companies
    BY <1>2, <1>3, <1>7
  <2>4. \A k \in Named(w, b) : w.own[k] \in {w.own[entry.cui], w.own[entry.nr], Nil}
    BY <1>2
  <2> QED
    BY <1>3, <1>7, <2>2, <2>3, <2>4 DEF DetectedForm, new
<1>8. CASE Cardinality(owners) = 1 /\ rivals # {}
  <2>1. PICK o : owners = {o}
    BY <1>3, <1>8
  <2>2. new = MergeHalves(w, b, owners \cup rivals)
    BY <1>6, <1>8, <2>1
  <2>3. ASSUME NEW h \in Halves(w, b, owners \cup rivals), NEW k \in Named(w, b)
        PROVE  w.own[k] \in {h[1], h[2], Nil}
    <3>1. h[1] \in owners \cup rivals /\ h[1] # h[2] /\ h[2] \in HasNr(w, entry.nr)
      BY DEF Halves
    <3>2. \A r \in rivals : r = h[2]
      BY <1>1, <1>4, <3>1, OneHolder
    <3>3. h[1] = o
      BY <2>1, <3>1, <3>2
    <3> QED
      BY <1>2, <2>1, <3>3
  <2> DEFINE among == owners \cup rivals
  <2>4. among \in SUBSET Companies
    BY <1>2, <1>4
  <2>5. \A h \in Halves(w, b, among) : \A k \in Named(w, b) : w.own[k] \in {h[1], h[2], Nil}
    BY <2>3
  <2> HIDE DEF among
  <2>6. \/ MergeHalves(w, b, among) = Rejected(w, b, "identity_conflict", Nil)
        \/ \E p \in Companies, s \in Companies :
             /\ p # s
             /\ \A k \in Named(w, b) : w.own[k] \in {p, s, Nil}
             /\ MergeHalves(w, b, among) = Finalize(Merge(w, p, s), b, p)
    BY <2>4, <2>5, MergeHalvesForms
  <2> QED
    BY <2>2, <2>6 DEF DetectedForm, new, among
<1>9. CASE Cardinality(owners) = 1 /\ rivals = {}
  <2>1. PICK o : owners = {o}
    BY <1>3, <1>9
  <2>2. new = Finalize(w, b, The(owners)) /\ The(owners) = o
    BY <1>6, <1>9, <2>1, ElementOf
  <2>3. o \in Companies /\ Clear(w, b, o)
    BY <1>2, <2>1 DEF Clear
  <2> QED
    BY <2>2, <2>3 DEF DetectedForm, new
<1>10. CASE owners = {}
  <2>1. \A k \in Named(w, b) : w.own[k] = Nil
    BY <1>2, <1>10
  <2>2. Cardinality(owners) = 0
    BY <1>5, <1>10
  <2>3. CASE Cardinality(holders) = 2
    <3>1. new = MergeHalves(w, b, holders)
      BY <1>6, <1>10, <2>2, <2>3
    <3> QED
      BY <1>4, <2>1, <3>1, MergeHalvesForms DEF DetectedForm, new
  <2>4. CASE Cardinality(holders) = 1
    <3>1. new = Finalize(w, b, The(holders))
      BY <1>6, <1>10, <2>2, <2>4
    <3>2. The(holders) \in Companies
      BY <1>4, <1>5, <2>4, ElementOf
    <3> QED
      BY <2>1, <3>1, <3>2 DEF DetectedForm, Clear, new
  <2>5. CASE Cardinality(holders) \notin {1, 2}
    <3>1. new = Attach(w, b, Remembered(entry))
      BY <1>6, <1>10, <2>2, <2>5
    <3>2. Remembered(entry) \in Companies \cup {Nil}
      BY <1>1 DEF Remembered, Contact
    <3> QED
      BY <2>1, <3>1, <3>2 DEF DetectedForm, Clear, Attach, new
  <2> QED
    BY <2>3, <2>4, <2>5
<1> QED
  BY <1>3, <1>7, <1>8, <1>9, <1>10

-----------------------------------------------------------------------------
(* A transaction moves keys as the registry allows *)

Moved(old, new) ==
    \/ new = old
    \/ \E c \in Companies, keys \in SUBSET Keys :
         /\ \A k \in keys : old[k] = Nil
         /\ \/ new = [k \in Keys |-> IF k \in keys THEN c ELSE old[k]]
            \/ \E s \in Companies \ {c} :
                 new = [k \in Keys |-> IF old[k] = s \/ k \in keys THEN c ELSE old[k]]

LEMMA RejectedMoved ==
    ASSUME NEW w \in World, NEW b \in Contacts, NEW outcome \in Statuses,
           NEW c \in Companies \cup {Nil}
    PROVE  Rejected(w, b, outcome, c) \in World /\ Moved(w.own, Rejected(w, b, outcome, c).own)
  BY RejectedTyped DEF Moved

LEMMA FinalizeMoved ==
    ASSUME NEW w \in World, NEW b \in Contacts, NEW c \in Companies, Clear(w, b, c)
    PROVE  Moved(w.own, Finalize(w, b, c).own)
<1> DEFINE keys == {k \in Named(w, b) : w.own[k] = Nil}
<1>1. keys \in SUBSET Keys /\ \A k \in keys : w.own[k] = Nil
  BY NamedTyped
<1>2. Finalize(w, b, c).own = [k \in Keys |-> IF k \in Named(w, b) THEN c ELSE w.own[k]]
  BY FinalizeTyped
<1>3. \A k \in Named(w, b) : k \notin keys => w.own[k] = c
  BY DEF Clear
<1>4. keys \subseteq Named(w, b)
  OBVIOUS
<1> HIDE DEF keys
<1>5. Finalize(w, b, c).own = [k \in Keys |-> IF k \in keys THEN c ELSE w.own[k]]
  BY <1>2, <1>3, <1>4
<1> QED
  BY <1>1, <1>5 DEF Moved

LEMMA MergedMoved ==
    ASSUME NEW w \in World, NEW b \in Contacts, NEW p \in Companies, NEW s \in Companies, p # s,
           \A k \in Named(w, b) : w.own[k] \in {p, s, Nil}
    PROVE  /\ Finalize(Merge(w, p, s), b, p) \in World
           /\ Finalize(Merge(w, p, s), b, p).ct[b].status = "resolved"
           /\ Moved(w.own, Finalize(Merge(w, p, s), b, p).own)
<1> DEFINE m == Merge(w, p, s)
           keys == {k \in Named(w, b) : w.own[k] = Nil}
<1>1. /\ m \in World /\ m.own = [k \in Keys |-> IF w.own[k] = s THEN p ELSE w.own[k]]
      /\ m.ct[b].cui = w.ct[b].cui /\ m.ct[b].nr = w.ct[b].nr
  BY MergeTyped
<1> HIDE DEF m
<1>2. Named(m, b) = Named(w, b) /\ Named(w, b) \subseteq Keys
  BY <1>1, NamedTyped DEF Named
<1>3. Clear(m, b, p)
  BY <1>1, <1>2 DEF Clear
<1>4. /\ Finalize(m, b, p) \in World /\ Finalize(m, b, p).ct[b].status = "resolved"
      /\ Finalize(m, b, p).own = [k \in Keys |-> IF k \in Named(w, b) THEN p ELSE m.own[k]]
  BY <1>1, <1>2, <1>3, FinalizeTyped
<1>5. keys \in SUBSET Keys /\ keys \subseteq Named(w, b)
  BY <1>2
<1>6. \A k \in Named(w, b) : k \in keys \/ w.own[k] = s \/ w.own[k] = p
  OBVIOUS
<1>7. \A k \in keys : w.own[k] = Nil
  OBVIOUS
<1> HIDE DEF keys
<1>8. Finalize(m, b, p).own = [k \in Keys |-> IF w.own[k] = s \/ k \in keys THEN p ELSE w.own[k]]
  <2>1. \A k \in Keys : m.own[k] = IF w.own[k] = s THEN p ELSE w.own[k]
    BY <1>1
  <2>2. ASSUME NEW k \in Keys
        PROVE  (IF k \in Named(w, b) THEN p ELSE m.own[k])
                 = IF w.own[k] = s \/ k \in keys THEN p ELSE w.own[k]
    BY <1>5, <1>6, <2>1
  <2> QED
    BY <1>4, <2>2
<1> QED
  BY <1>4, <1>5, <1>7, <1>8 DEF Moved, m

LEMMA DetectedMoves ==
    ASSUME NEW w \in World, Fits(w), Made(w) # Companies, NEW b \in Contacts
    PROVE  Detected(w, b) \in World /\ Moved(w.own, Detected(w, b).own)
<1> DEFINE new == Detected(w, b)
<1>1. DetectedForm(w, b, new)
  BY DetectedForms
<1> HIDE DEF new
<1>2. CASE \E c \in Companies : Clear(w, b, c) /\ new = Finalize(w, b, c)
  BY <1>2, FinalizeTyped, FinalizeMoved DEF new
<1>3. CASE \E p \in Companies, s \in Companies :
             /\ p # s
             /\ \A k \in Named(w, b) : w.own[k] \in {p, s, Nil}
             /\ new = Finalize(Merge(w, p, s), b, p)
  BY <1>3, MergedMoved DEF new
<1>4. CASE new = Rejected(w, b, "identity_conflict", Nil)
  BY <1>4, RejectedTyped DEF new, Statuses, Moved
<1>5. CASE /\ \A k \in Named(w, b) : w.own[k] = Nil
           /\ new = Finalize(Insert(w, w.ct[b].cui, w.ct[b].nr), b, Fresh(w))
  <2> DEFINE i == Insert(w, w.ct[b].cui, w.ct[b].nr)
  <2>1. i \in World /\ i.own = w.own /\ i.ct = w.ct
    BY NamedTyped, InsertTyped
  <2>2. Fresh(w) \in Companies
    BY FreshTyped
  <2> HIDE DEF i
  <2>3. Clear(i, b, Fresh(w))
    BY <1>5, <2>1 DEF Clear, Named
  <2>4. Finalize(i, b, Fresh(w)) \in World /\ Moved(i.own, Finalize(i, b, Fresh(w)).own)
    BY <2>1, <2>2, <2>3, FinalizeTyped, FinalizeMoved
  <2> QED
    BY <1>5, <2>1, <2>4 DEF new, i
<1> QED
  BY <1>1, <1>2, <1>3, <1>4, <1>5 DEF DetectedForm

LEMMA ResolvedMoves ==
    ASSUME NEW w \in World, Fits(w), Made(w) # Companies, NEW b \in Contacts
    PROVE  Resolved(w, b) \in World /\ Moved(w.own, Resolved(w, b).own)
<1>1. CASE Twins(w, b) # {}
  <2>1. Twins(w, b) \subseteq Contacts /\ Twins(w, b) \subseteq Nat
    BY ConstantsAssumption DEF Twins
  <2>2. \E t \in Twins(w, b) : \A u \in Twins(w, b) : t <= u
    BY <1>1, <2>1, LeastNat
  <2>3. Eldest(Twins(w, b)) \in Contacts
    BY <2>1, <2>2 DEF Eldest
  <2>4. w.ct[Eldest(Twins(w, b))] \in Contact
    BY <2>3, NamedTyped
  <2> DEFINE c == w.ct[Eldest(Twins(w, b))].company
  <2>5. c \in Companies \cup {Nil}
    BY <2>4 DEF Contact
  <2>6. Resolved(w, b) = Rejected(w, b, "duplicate_source", c)
    BY <1>1 DEF Resolved
  <2> HIDE DEF c
  <2> QED
    <3>1. "duplicate_source" \in Statuses
      BY DEF Statuses
    <3> QED
      BY <2>5, <2>6, <3>1, RejectedMoved
<1>2. CASE Twins(w, b) = {} /\ w.ct[b].cui = Nil /\ w.ct[b].nr = Nil
  <2>1. Resolved(w, b) = Rejected(w, b, "insufficient_identifiers", Nil)
    BY <1>2 DEF Resolved
  <2> QED
    <3>1. "insufficient_identifiers" \in Statuses
      BY DEF Statuses
    <3> QED
      BY <2>1, <3>1, RejectedMoved
<1>3. CASE Twins(w, b) = {} /\ ~ (w.ct[b].cui = Nil /\ w.ct[b].nr = Nil)
  <2>1. Resolved(w, b) = Detected(w, b)
    BY <1>3 DEF Resolved
  <2> QED
    BY <2>1, DetectedMoves
<1> QED
  BY <1>1, <1>2, <1>3

\* D1, the promotion and a review claim a key that nobody owns, or leave it.
LEMMA UpsertedMoves ==
    ASSUME NEW w \in World, NEW c \in Companies, NEW k \in Keys, NEW b \in Contacts \cup {Nil}
    PROVE  Upserted(w, c, k, b) \in World /\ Moved(w.own, Upserted(w, c, k, b).own)
<1>1. Upserted(w, c, k, b) \in World
  BY UpsertedTyped
<1>2. CASE Upserted(w, c, k, b).own = w.own
  BY <1>1, <1>2 DEF Moved
<1>3. CASE w.own[k] \in {c, Nil} /\ Upserted(w, c, k, b).own = [w.own EXCEPT ![k] = c]
  <2> DEFINE new == Upserted(w, c, k, b).own
  <2>1. CASE w.own[k] = c
    <3>1. [w.own EXCEPT ![k] = c] = w.own
      BY <2>1 DEF World
    <3> QED
      BY <1>1, <1>3, <3>1 DEF Moved
  <2>2. CASE w.own[k] = Nil
    <3> DEFINE keys == {k}
    <3>1. [w.own EXCEPT ![k] = c] = [j \in Keys |-> IF j \in keys THEN c ELSE w.own[j]]
      BY DEF World
    <3>2. keys \in SUBSET Keys /\ \A j \in keys : w.own[j] = Nil
      BY <2>2
    <3> HIDE DEF keys
    <3> QED
      BY <1>1, <1>3, <3>1, <3>2 DEF Moved
  <2> QED
    BY <1>3, <2>1, <2>2
<1> QED
  BY <1>2, <1>3, UpsertedTyped

\* Writes of a company's or a row's fields leave the keys alone.
LEMMA CompanySaved ==
    ASSUME NEW w \in World, NEW c \in Companies, NEW cui \in Cuis \cup {Nil},
           NEW nr \in Nrs \cup {Nil}
    PROVE  /\ [w EXCEPT !.co[c] = Identified(@, cui, nr)] \in World
           /\ Moved(w.own, [w EXCEPT !.co[c] = Identified(@, cui, nr)].own)
<1> DEFINE co == [w.co EXCEPT ![c] = Identified(@, cui, nr)]
<1>1. w.co \in [Companies -> Company]
  BY DEF World
<1>2. co \in [Companies -> Company]
  BY <1>1, IdentifiedCompany
<1>3. [w EXCEPT !.co[c] = Identified(@, cui, nr)] = [w EXCEPT !.co = co]
  BY DEF World
<1> HIDE DEF co
<1> QED
  BY <1>2, <1>3 DEF World, Moved

LEMMA RowSaved ==
    ASSUME NEW w \in World, NEW b \in Contacts, NEW x \in Contact
    PROVE  /\ [w EXCEPT !.ct[b] = x] \in World
           /\ Moved(w.own, [w EXCEPT !.ct[b] = x].own)
<1> DEFINE ct == [w.ct EXCEPT ![b] = x]
<1>1. ct \in [Contacts -> Contact]
  BY DEF World
<1>2. [w EXCEPT !.ct[b] = x] = [w EXCEPT !.ct = ct]
  BY DEF World
<1> HIDE DEF ct
<1> QED
  BY <1>1, <1>2 DEF World, Moved

LEMMA CompanyInserted ==
    ASSUME NEW w \in World, Made(w) # Companies, NEW cui \in Cuis \cup {Nil},
           NEW nr \in Nrs \cup {Nil}
    PROVE  Insert(w, cui, nr) \in World /\ Moved(w.own, Insert(w, cui, nr).own)
  BY InsertTyped DEF Moved

-----------------------------------------------------------------------------
(* The invariant in two parts: what the database holds, what the jobs know *)

Database ==
    /\ company \in [Companies -> Company]
    /\ owner \in [Keys -> Companies \cup {Nil}]
    /\ contact \in [Contacts -> Contact]
    /\ Fits(Now)

Jobs ==
    /\ ingest \subseteq Contacts /\ reprocess \subseteq Contacts /\ tasks \subseteq Contacts
    /\ overtaken \subseteq Contacts
    /\ promoter \in [Contacts -> Worker]
    /\ reviewer \in [Contacts -> Worker]
    /\ enricher \in [Companies -> Worker]
    /\ left \in [promotions : 0..Promotions, enrichments : 0..Enrichments,
                 reprocesses : SUBSET Reprocessed, reviews : 0..Reviews]
    /\ \A b \in Contacts : Knows(promoter[b]) /\ Knows(reviewer[b])

LEMMA Parts == IInv <=> Database /\ Jobs
  BY DEF IInv, TypeOK, Database, Jobs

LEMMA PartsNext == IInv' <=> Database' /\ Jobs'
  BY DEF IInv, TypeOK, Database, Jobs

LEMMA World0 == Database => Now \in World /\ Now.own = owner /\ Now.co = company /\ Now.ct = contact
  BY DEF Database, Now, World

LEMMA Committed ==
    ASSUME Database, NEW w \in World, Moved(Now.own, w.own), Commit(w)
    PROVE  Database' /\ Moved(owner, owner')
<1>1. company' = w.co /\ owner' = w.own /\ contact' = w.ct /\ Fits(w)
  BY DEF Commit
<1>2. Fits(Now)'
  BY <1>1 DEF Fits, Now
<1>3. Moved(owner, owner')
  BY <1>1, World0
<1> QED
  BY <1>1, <1>2, <1>3 DEF Database, World

LEMMA RowsChanged ==
    ASSUME Database, UNCHANGED <<company, owner>>, contact' \in [Contacts -> Contact]
    PROVE  Database' /\ Moved(owner, owner')
<1>1. Fits(Now)'
  BY DEF Database, Fits, Now
<1> QED
  BY <1>1 DEF Database, Moved

LEMMA Aborted ==
    ASSUME Database, Abort
    PROVE  Database' /\ Moved(owner, owner')
  BY RowsChanged DEF Abort, Database

LEMMA UpsertMoves ==
    ASSUME Database, NEW c \in Companies, NEW k \in Keys \cup {Nil}, NEW b \in Contacts \cup {Nil},
           Upsert(c, k, b)
    PROVE  Database' /\ Moved(owner, owner')
<1>1. CASE k = Nil
  BY <1>1, Aborted DEF Upsert
<1>2. CASE k # Nil
  <2> DEFINE w == Upserted(Now, c, k, b)
  <2>1. w \in World /\ Moved(Now.own, w.own) /\ Commit(w)
    BY <1>2, World0, UpsertedMoves DEF Upsert
  <2> HIDE DEF w
  <2> QED
    BY <2>1, Committed
<1> QED
  BY <1>1, <1>2

LEMMA WorkerTyped ==
    ASSUME NEW w \in Worker
    PROVE  /\ w.cui \in Cuis \cup {Nil} /\ w.nr \in Nrs \cup {Nil}
           /\ w.cui \in Keys \cup {Nil} /\ w.nr \in Keys \cup {Nil}
           /\ w.row \in Companies \cup {Nil} /\ w.company \in Companies \cup {Nil}
  BY DEF Worker, Keys

LEMMA IdleWorker == Idle \in Worker /\ Knows(Idle)
  BY DEF Idle, Worker, Knows

-----------------------------------------------------------------------------
(* Init *)

LEMMA InitIInv == Init => IInv
<1> SUFFICES ASSUME Init PROVE IInv
  OBVIOUS
<1>1. company \in [Companies -> Company]
  BY DEF Init, Company
<1>2. \A b \in Contacts : Given[b].cui \in Cuis \cup {Nil} /\ Given[b].nr \in Nrs \cup {Nil}
  BY ConstantsAssumption
<1>3. contact \in [Contacts -> Contact]
  BY <1>2 DEF Init, Contact, Statuses
<1>4. Fits(Now)
  BY DEF Init, Fits, Now
<1>5. Database
  BY <1>1, <1>3, <1>4 DEF Init, Database
<1>6. left \in [promotions : 0..Promotions, enrichments : 0..Enrichments,
                reprocesses : SUBSET Reprocessed, reviews : 0..Reviews]
  <2>1. Promotions \in 0..Promotions /\ Enrichments \in 0..Enrichments /\ Reviews \in 0..Reviews
    BY ConstantsAssumption
  <2> QED
    BY <2>1 DEF Init
<1>7. Jobs
  BY <1>6, IdleWorker DEF Init, Jobs
<1> QED
  BY <1>5, <1>7, Parts

-----------------------------------------------------------------------------
(* The steps of the ingest and of the reprocessing *)

LEMMA InsertRowsStep ==
    ASSUME Database, Jobs, NEW chunk \in Chunks, InsertRows(chunk)
    PROVE  Database' /\ Jobs' /\ Moved(owner, owner')
<1>1. chunk \subseteq Contacts
  BY ConstantsAssumption
<1>2. contact' \in [Contacts -> Contact]
  <2>1. ASSUME NEW b \in Contacts PROVE [contact[b] EXCEPT !.status = "unresolved"] \in Contact
    <3>1. contact[b] \in Contact
      BY DEF Database
    <3> QED
      BY <3>1 DEF Contact, Statuses
  <2>2. ASSUME NEW b \in Contacts
        PROVE  (IF b \in chunk THEN [contact[b] EXCEPT !.status = "unresolved"] ELSE contact[b])
                 \in Contact
    BY <2>1 DEF Database
  <2> QED
    BY <2>2 DEF InsertRows
<1> QED
  BY <1>1, <1>2, RowsChanged DEF InsertRows, Jobs

LEMMA AskTyped ==
    ASSUME Jobs, NEW b \in Contacts, AskAboutConflict(b)
    PROVE  tasks' \subseteq Contacts
  BY DEF AskAboutConflict, Jobs

LEMMA OvertakeTyped == Jobs /\ Overtake => overtaken' \subseteq Contacts
  BY DEF Overtake, Jobs

LEMMA ResolutionStep ==
    ASSUME Database, NEW b \in Contacts, Made(Now) # Companies, Commit(Resolved(Now, b))
    PROVE  Database' /\ Moved(owner, owner')
<1> DEFINE w == Resolved(Now, b)
<1>1. Fits(Now)
  BY DEF Database
<1>2. w \in World /\ Moved(Now.own, w.own) /\ Commit(w)
  BY <1>1, World0, ResolvedMoves
<1> HIDE DEF w
<1> QED
  BY <1>2, Committed

LEMMA ResolveRowStep ==
    ASSUME Database, Jobs, NEW b \in ingest, ResolveRow(b)
    PROVE  Database' /\ Jobs' /\ Moved(owner, owner')
<1>1. b \in Contacts
  BY DEF Jobs
<1>2. Database' /\ Moved(owner, owner')
  BY <1>1, ResolutionStep DEF ResolveRow
<1>3. tasks' \subseteq Contacts
  BY <1>1, AskTyped DEF ResolveRow
<1>4. overtaken' \subseteq Contacts
  BY OvertakeTyped DEF ResolveRow
<1> QED
  BY <1>2, <1>3, <1>4 DEF ResolveRow, Jobs

LEMMA ResolveAgainStep ==
    ASSUME Database, Jobs, NEW b \in Contacts, ResolveAgain(b)
    PROVE  Database' /\ Jobs' /\ Moved(owner, owner')
<1>1. Database' /\ Moved(owner, owner')
  BY ResolutionStep DEF ResolveAgain
<1>2. tasks' \subseteq Contacts
  BY AskTyped DEF ResolveAgain
<1>3. overtaken' \subseteq Contacts
  BY OvertakeTyped DEF ResolveAgain
<1> QED
  BY <1>1, <1>2, <1>3 DEF ResolveAgain, Jobs

LEMMA RowFailsStep ==
    ASSUME Database, Jobs, NEW b \in ingest, RowFails(b)
    PROVE  Database' /\ Jobs' /\ Moved(owner, owner')
<1>1. contact[b] \in Contact
  BY DEF Database, Jobs
<1>2. [contact[b] EXCEPT !.skip = TRUE] \in Contact
  BY <1>1 DEF Contact
<1>3. contact' = [contact EXCEPT ![b] = [contact[b] EXCEPT !.skip = TRUE]]
  BY DEF RowFails
<1>4. contact' \in [Contacts -> Contact]
  BY <1>2, <1>3 DEF Database
<1> QED
  BY <1>4, RowsChanged DEF RowFails, Jobs

LEMMA IngestDiesStep ==
    ASSUME Database, Jobs, IngestDies
    PROVE  Database' /\ Jobs' /\ Moved(owner, owner')
<1>1. contact' \in [Contacts -> Contact]
  BY DEF IngestDies, Database
<1> QED
  BY <1>1, RowsChanged DEF IngestDies, Jobs

LEMMA TakeAnafNrStep ==
    ASSUME Database, Jobs, NEW b \in Contacts, TakeAnafNr(b)
    PROVE  Database' /\ Jobs' /\ Moved(owner, owner')
<1>1. contact[b] \in Contact
  BY DEF Database
<1> DEFINE nr == AnafNr[contact[b].cui]
<1>2. nr \in Nrs \cup {Nil}
  BY <1>1, ConstantsAssumption DEF TakeAnafNr, Contact
<1>3. contact' = [contact EXCEPT ![b] = [contact[b] EXCEPT !.nr = nr]]
  BY DEF TakeAnafNr
<1> HIDE DEF nr
<1>4. [contact[b] EXCEPT !.nr = nr] \in Contact
  BY <1>1, <1>2 DEF Contact
<1>5. contact' \in [Contacts -> Contact]
  BY <1>3, <1>4 DEF Database
<1> QED
  BY <1>5, RowsChanged DEF TakeAnafNr, Jobs

LEMMA BackfillStep ==
    ASSUME Database, Jobs, NEW b \in Contacts, Backfill(b)
    PROVE  Database' /\ Jobs' /\ Moved(owner, owner')
<1> DEFINE x == Identified(contact[b], Given[b].cui, Given[b].nr)
<1>1. contact[b] \in Contact
  BY DEF Database
<1>2. Given[b].cui \in Cuis \cup {Nil} /\ Given[b].nr \in Nrs \cup {Nil}
  BY ConstantsAssumption
<1>3. x \in Contact
  BY <1>1, <1>2, IdentifiedContact
<1>4. contact' = [contact EXCEPT ![b] = x]
  BY DEF Backfill
<1> HIDE DEF x
<1>5. contact' \in [Contacts -> Contact]
  BY <1>3, <1>4 DEF Database
<1>6. Database' /\ Moved(owner, owner')
  BY <1>5, RowsChanged DEF Backfill
<1>7. left' \in [promotions : 0..Promotions, enrichments : 0..Enrichments,
                 reprocesses : SUBSET Reprocessed, reviews : 0..Reviews]
  BY DEF Backfill, Jobs
<1>8. reprocess' \subseteq Contacts
  BY DEF Backfill, Jobs
<1> QED
  BY <1>6, <1>7, <1>8 DEF Backfill, Jobs

LEMMA ReprocessFailsStep ==
    ASSUME Database, Jobs, NEW b \in Contacts, ReprocessFails(b)
    PROVE  Database' /\ Jobs' /\ Moved(owner, owner')
<1>1. contact' \in [Contacts -> Contact]
  BY DEF ReprocessFails, Database
<1> QED
  BY <1>1, RowsChanged DEF ReprocessFails, Jobs

-----------------------------------------------------------------------------
(* The steps of the promotion *)

LEMMA RowsLeft ==
    ASSUME Database, UNCHANGED <<company, owner, contact>>
    PROVE  Database' /\ Moved(owner, owner')
<1>1. contact' \in [Contacts -> Contact]
  BY DEF Database
<1> QED
  BY <1>1, RowsChanged

LEMMA StartPromotionStep ==
    ASSUME Database, Jobs, NEW b \in Contacts, StartPromotion(b)
    PROVE  Database' /\ Jobs' /\ Moved(owner, owner')
<1> DEFINE begun == [step |-> "find", cui |-> contact[b].cui, nr |-> contact[b].nr,
                     row |-> contact[b].company, company |-> Nil]
<1>1. contact[b] \in Contact
  BY DEF Database
<1>2. begun \in Worker /\ Knows(begun)
  BY <1>1 DEF Contact, Worker, Knows
<1>3. promoter' = [promoter EXCEPT ![b] = begun]
  BY DEF StartPromotion
<1> HIDE DEF begun
<1>4. promoter' \in [Contacts -> Worker] /\ \A c \in Contacts : Knows(promoter'[c])
  BY <1>2, <1>3 DEF Jobs
<1>5. left' \in [promotions : 0..Promotions, enrichments : 0..Enrichments,
                 reprocesses : SUBSET Reprocessed, reviews : 0..Reviews]
  BY ConstantsAssumption DEF StartPromotion, Jobs
<1>6. Database' /\ Moved(owner, owner')
  BY RowsLeft DEF StartPromotion
<1> QED
  BY <1>4, <1>5, <1>6 DEF StartPromotion, Jobs

LEMMA ByIdentifiersTyped ==
    ASSUME Database, NEW cui \in Cuis \cup {Nil}, NEW nr \in Nrs \cup {Nil}
    PROVE  ByIdentifiers(cui, nr) \subseteq Companies
<1>1. Owners(Now, {cui, nr}) \subseteq Companies
  <2>1. \A k \in {cui, nr} \ {Nil} : Now.own[k] \in Companies \cup {Nil}
    BY World0, KeyFacts DEF Database
  <2> QED
    BY <2>1 DEF Owners
<1>2. HasCui(Now, cui) \subseteq Companies /\ HasNr(Now, nr) \subseteq Companies
  BY DEF HasCui, HasNr
<1> QED
  BY <1>1, <1>2 DEF ByIdentifiers

LEMMA FindCompanyStep ==
    ASSUME Database, Jobs, NEW b \in Contacts, FindCompany(b)
    PROVE  Database' /\ Jobs' /\ Moved(owner, owner')
<1> DEFINE p == promoter[b]
           found == IF p.row # Nil THEN {p.row} ELSE ByIdentifiers(p.cui, p.nr)
<1>1. p \in Worker
  BY DEF Jobs
<1>2. found \subseteq Companies
  BY <1>1, WorkerTyped, ByIdentifiersTyped
<1>3. PICK c \in IF found = {} THEN {Nil} ELSE found :
        promoter' = [promoter EXCEPT ![b] = [p EXCEPT !.step = "save", !.company = c]]
  BY DEF FindCompany
<1> HIDE DEF found
<1>4. c \in Companies \cup {Nil}
  BY <1>2, <1>3
<1> DEFINE begun == [p EXCEPT !.step = "save", !.company = c]
<1>5. begun \in Worker /\ Knows(begun)
  BY <1>1, <1>4 DEF Worker, Knows
<1> HIDE DEF begun
<1>6. promoter' \in [Contacts -> Worker] /\ \A d \in Contacts : Knows(promoter'[d])
  BY <1>3, <1>5 DEF Jobs, begun
<1>7. Database' /\ Moved(owner, owner')
  BY RowsLeft DEF FindCompany
<1> QED
  BY <1>6, <1>7 DEF FindCompany, Jobs

LEMMA SavedCommitted ==
    ASSUME Database, NEW c \in Companies, NEW cui \in Cuis \cup {Nil}, NEW nr \in Nrs \cup {Nil},
           Commit([Now EXCEPT !.co[c] = Identified(@, cui, nr)])
    PROVE  Database' /\ Moved(owner, owner')
<1> DEFINE w == [Now EXCEPT !.co[c] = Identified(@, cui, nr)]
<1>1. w \in World /\ Moved(Now.own, w.own) /\ Commit(w)
  BY World0, CompanySaved
<1> HIDE DEF w
<1> QED
  BY <1>1, Committed

LEMMA InsertedCommitted ==
    ASSUME Database, Made(Now) # Companies, NEW cui \in Cuis \cup {Nil}, NEW nr \in Nrs \cup {Nil},
           Commit(Insert(Now, cui, nr))
    PROVE  Database' /\ Moved(owner, owner')
<1> DEFINE w == Insert(Now, cui, nr)
<1>1. w \in World /\ Moved(Now.own, w.own) /\ Commit(w)
  BY World0, CompanyInserted
<1> HIDE DEF w
<1> QED
  BY <1>1, Committed

LEMMA RowCommitted ==
    ASSUME Database, NEW b \in Contacts, NEW x \in Contact, Commit([Now EXCEPT !.ct[b] = x])
    PROVE  Database' /\ Moved(owner, owner')
<1> DEFINE w == [Now EXCEPT !.ct[b] = x]
<1>1. w \in World /\ Moved(Now.own, w.own) /\ Commit(w)
  BY World0, RowSaved
<1> HIDE DEF w
<1> QED
  BY <1>1, Committed

\* A job of a contact takes another step.
LEMMA PromoterMoves ==
    ASSUME Jobs, NEW b \in Contacts, NEW begun \in Worker, Knows(begun),
           promoter' = [promoter EXCEPT ![b] = begun]
    PROVE  promoter' \in [Contacts -> Worker] /\ \A c \in Contacts : Knows(promoter'[c])
  BY DEF Jobs

LEMMA ReviewerMoves ==
    ASSUME Jobs, NEW b \in Contacts, NEW begun \in Worker, Knows(begun),
           reviewer' = [reviewer EXCEPT ![b] = begun]
    PROVE  reviewer' \in [Contacts -> Worker] /\ \A c \in Contacts : Knows(reviewer'[c])
  BY DEF Jobs

LEMMA SaveCompanyStep ==
    ASSUME Database, Jobs, NEW b \in Contacts, SaveCompany(b)
    PROVE  Database' /\ Jobs' /\ Moved(owner, owner')
<1> DEFINE p == promoter[b]
<1>1. p \in Worker /\ p.cui \in Cuis \cup {Nil} /\ p.nr \in Nrs \cup {Nil}
      /\ p.company \in Companies \cup {Nil}
  BY WorkerTyped DEF Jobs
<1>2. Nil \in Cuis \cup {Nil}
  OBVIOUS
<1>3. CASE /\ p.company # Nil
           /\ Commit([Now EXCEPT !.co[p.company] = Identified(@, Nil, p.nr)])
           /\ promoter' = [promoter EXCEPT ![b].step = "cui"]
  <2> DEFINE begun == [p EXCEPT !.step = "cui"]
  <2>1. begun \in Worker /\ Knows(begun)
    BY <1>1, <1>3 DEF Worker, Knows
  <2>2. promoter' = [promoter EXCEPT ![b] = begun]
    BY <1>3
  <2> HIDE DEF begun
  <2>3. promoter' \in [Contacts -> Worker] /\ \A c \in Contacts : Knows(promoter'[c])
    BY <2>1, <2>2, PromoterMoves
  <2>4. Database' /\ Moved(owner, owner')
    BY <1>1, <1>2, <1>3, SavedCommitted
  <2> QED
    BY <2>3, <2>4 DEF SaveCompany, Jobs
<1>4. CASE /\ p.company = Nil /\ ~Taken(p.cui, p.nr) /\ Made(Now) # Companies
           /\ Commit(Insert(Now, p.cui, p.nr))
           /\ promoter' = [promoter EXCEPT ![b] = [@ EXCEPT !.step = "cui",
                                                            !.company = Fresh(Now)]]
  <2> DEFINE begun == [p EXCEPT !.step = "cui", !.company = Fresh(Now)]
  <2>1. Fresh(Now) \in Companies
    BY <1>4, FreshTyped
  <2>2. begun \in Worker /\ Knows(begun)
    BY <1>1, <2>1 DEF Worker, Knows
  <2>3. promoter' = [promoter EXCEPT ![b] = begun]
    BY <1>4
  <2> HIDE DEF begun
  <2>4. promoter' \in [Contacts -> Worker] /\ \A c \in Contacts : Knows(promoter'[c])
    BY <2>2, <2>3, PromoterMoves
  <2>5. Database' /\ Moved(owner, owner')
    BY <1>1, <1>4, InsertedCommitted
  <2> QED
    BY <2>4, <2>5 DEF SaveCompany, Jobs
<1>5. CASE \E c \in ByIdentifiers(p.cui, p.nr) :
             /\ Commit([Now EXCEPT !.co[c] = Identified(@, Nil, p.nr)])
             /\ promoter' = [promoter EXCEPT ![b] = [@ EXCEPT !.step = "cui", !.company = c]]
  <2>1. PICK c \in ByIdentifiers(p.cui, p.nr) :
             /\ Commit([Now EXCEPT !.co[c] = Identified(@, Nil, p.nr)])
             /\ promoter' = [promoter EXCEPT ![b] = [@ EXCEPT !.step = "cui", !.company = c]]
    BY <1>5
  <2>2. c \in Companies
    BY <1>1, ByIdentifiersTyped
  <2> DEFINE begun == [p EXCEPT !.step = "cui", !.company = c]
  <2>3. begun \in Worker /\ Knows(begun)
    BY <1>1, <2>2 DEF Worker, Knows
  <2>4. promoter' = [promoter EXCEPT ![b] = begun]
    BY <2>1
  <2> HIDE DEF begun
  <2>5. promoter' \in [Contacts -> Worker] /\ \A d \in Contacts : Knows(promoter'[d])
    BY <2>3, <2>4, PromoterMoves
  <2>6. Database' /\ Moved(owner, owner')
    BY <1>1, <1>2, <2>1, <2>2, SavedCommitted
  <2> QED
    BY <2>5, <2>6 DEF SaveCompany, Jobs
<1> QED
  BY <1>3, <1>4, <1>5 DEF SaveCompany

LEMMA ClaimKeyStep ==
    ASSUME Database, Jobs, NEW b \in Contacts, ClaimKey(b)
    PROVE  Database' /\ Jobs' /\ Moved(owner, owner')
<1> DEFINE p == promoter[b]
<1>1. p \in Worker /\ Knows(p) /\ p.cui \in Keys \cup {Nil} /\ p.nr \in Keys \cup {Nil}
  BY WorkerTyped DEF Jobs
<1>2. p.company \in Companies
  BY <1>1 DEF ClaimKey, Knows
<1>3. PICK step \in {"nr", "mark"} : promoter' = [promoter EXCEPT ![b].step = step]
  BY DEF ClaimKey
<1> DEFINE begun == [p EXCEPT !.step = step]
<1>4. begun \in Worker /\ Knows(begun)
  BY <1>1, <1>2 DEF Worker, Knows
<1>5. promoter' = [promoter EXCEPT ![b] = begun]
  BY <1>3
<1> HIDE DEF begun
<1>6. promoter' \in [Contacts -> Worker] /\ \A c \in Contacts : Knows(promoter'[c])
  BY <1>4, <1>5, PromoterMoves
<1>7. Upsert(p.company, p.cui, b) \/ Upsert(p.company, p.nr, b)
  BY DEF ClaimKey
<1>8. Database' /\ Moved(owner, owner')
  BY <1>1, <1>2, <1>7, UpsertMoves
<1> QED
  BY <1>6, <1>8 DEF ClaimKey, Jobs

LEMMA MarkPromotedStep ==
    ASSUME Database, Jobs, NEW b \in Contacts, MarkPromoted(b)
    PROVE  Database' /\ Jobs' /\ Moved(owner, owner')
<1> DEFINE p == promoter[b]
<1>1. p \in Worker /\ Knows(p) /\ p.cui \in Cuis \cup {Nil}
  BY WorkerTyped DEF Jobs
<1>2. p.company \in Companies
  BY <1>1 DEF MarkPromoted, Knows
<1>3. Database' /\ Moved(owner, owner')
  <2>1. contact[b] \in Contact
    BY DEF Database
  <2> DEFINE x == [contact[b] EXCEPT !.promoted = p.company]
  <2>2. x \in Contact
    BY <1>2, <2>1 DEF Contact
  <2>3. contact' = [contact EXCEPT ![b] = x]
    BY DEF MarkPromoted
  <2> HIDE DEF x
  <2>4. contact' \in [Contacts -> Contact]
    BY <2>2, <2>3 DEF Database
  <2> QED
    BY <2>4, RowsChanged DEF MarkPromoted
<1>4. promoter' \in [Contacts -> Worker] /\ \A c \in Contacts : Knows(promoter'[c])
  BY IdleWorker, PromoterMoves DEF MarkPromoted
<1>5. enricher' \in [Companies -> Worker]
      /\ left' \in [promotions : 0..Promotions, enrichments : 0..Enrichments,
                    reprocesses : SUBSET Reprocessed, reviews : 0..Reviews]
  <2>1. CASE left.enrichments > 0 /\ p.cui # Nil /\ enricher[p.company].step = "idle"
    <3> DEFINE begun == [step |-> "save", cui |-> p.cui, nr |-> AnafNr[p.cui],
                         row |-> Nil, company |-> Nil]
    <3>1. p.cui \in Cuis /\ AnafNr[p.cui] \in Nrs \cup {Nil}
      BY <1>1, <2>1, ConstantsAssumption
    <3>2. begun \in Worker
      BY <3>1 DEF Worker
    <3>3. enricher' = [enricher EXCEPT ![p.company] = begun]
          /\ left' = [left EXCEPT !.enrichments = @ - 1]
      BY <2>1 DEF MarkPromoted
    <3> HIDE DEF begun
    <3>4. enricher' \in [Companies -> Worker]
      BY <3>2, <3>3 DEF Jobs
    <3> QED
      BY <2>1, <3>3, <3>4, ConstantsAssumption DEF Jobs
  <2>2. CASE ~ (left.enrichments > 0 /\ p.cui # Nil /\ enricher[p.company].step = "idle")
    BY <2>2 DEF MarkPromoted, Jobs
  <2> QED
    BY <2>1, <2>2
<1> QED
  BY <1>3, <1>4, <1>5 DEF MarkPromoted, Jobs

LEMMA PromotionThrowsStep ==
    ASSUME Database, Jobs, NEW b \in Contacts, PromotionThrows(b)
    PROVE  Database' /\ Jobs' /\ Moved(owner, owner')
<1> DEFINE again == [promoter[b] EXCEPT !.step = "find", !.company = Nil]
<1>1. promoter[b] \in Worker
  BY DEF Jobs
<1>2. again \in Worker /\ Knows(again)
  BY <1>1 DEF Worker, Knows
<1>3. PICK begun \in {Idle, again} : promoter' = [promoter EXCEPT ![b] = begun]
  BY DEF PromotionThrows
<1> HIDE DEF again
<1>4. promoter' \in [Contacts -> Worker] /\ \A c \in Contacts : Knows(promoter'[c])
  BY <1>2, <1>3, IdleWorker, PromoterMoves
<1>5. Database' /\ Moved(owner, owner')
  BY RowsLeft DEF PromotionThrows
<1> QED
  BY <1>4, <1>5 DEF PromotionThrows, Jobs

-----------------------------------------------------------------------------
(* The steps of D1 and of a review *)

LEMMA EnrichStep ==
    ASSUME Database, Jobs, NEW c \in Companies, Enrich(c)
    PROVE  Database' /\ Jobs' /\ Moved(owner, owner')
<1> DEFINE e == enricher[c]
<1>1. e \in Worker /\ e.cui \in Cuis \cup {Nil} /\ e.nr \in Nrs \cup {Nil}
      /\ e.cui \in Keys \cup {Nil} /\ e.nr \in Keys \cup {Nil}
  BY WorkerTyped DEF Jobs
<1>2. Database' /\ Moved(owner, owner')
  BY <1>1, SavedCommitted, UpsertMoves DEF Enrich
<1>3. PICK step \in {"cui", "nr"} :
        enricher' \in {[enricher EXCEPT ![c] = [e EXCEPT !.step = step]],
                       [enricher EXCEPT ![c] = Idle]}
  BY DEF Enrich
<1>4. [e EXCEPT !.step = step] \in Worker
  BY <1>1 DEF Worker
<1>5. enricher' \in [Companies -> Worker]
  BY <1>3, <1>4, IdleWorker DEF Jobs
<1> QED
  BY <1>2, <1>5 DEF Enrich, Jobs

LEMMA EnrichmentFailsStep ==
    ASSUME Database, Jobs, NEW c \in Companies, EnrichmentFails(c)
    PROVE  Database' /\ Jobs' /\ Moved(owner, owner')
<1>1. Database' /\ Moved(owner, owner')
  BY RowsLeft DEF EnrichmentFails
<1> QED
  BY <1>1, IdleWorker DEF EnrichmentFails, Jobs

LEMMA RejectRowStep ==
    ASSUME Database, Jobs, NEW b \in Contacts, RejectRow(b)
    PROVE  Database' /\ Jobs' /\ Moved(owner, owner')
<1> DEFINE x == [contact[b] EXCEPT !.status = "identity_conflict", !.skip = TRUE]
<1>1. contact[b] \in Contact
  BY DEF Database
<1>2. x \in Contact
  BY <1>1 DEF Contact, Statuses
<1>3. Commit([Now EXCEPT !.ct[b] = x])
  BY DEF RejectRow, Now
<1> HIDE DEF x
<1>4. Database' /\ Moved(owner, owner')
  BY <1>2, <1>3, RowCommitted
<1> QED
  BY <1>4 DEF RejectRow, Jobs

LEMMA AssignRowStep ==
    ASSUME Database, Jobs, NEW b \in Contacts, AssignRow(b)
    PROVE  Database' /\ Jobs' /\ Moved(owner, owner')
<1> DEFINE begun(c) == [step |-> "cui", cui |-> contact[b].cui, nr |-> contact[b].nr,
                        row |-> Nil, company |-> c]
<1>1. /\ contact[b] \in Contact /\ contact[b].cui \in Cuis \cup {Nil}
      /\ contact[b].nr \in Nrs \cup {Nil}
  BY DEF Database, Contact
<1>2. ASSUME NEW c \in Companies PROVE begun(c) \in Worker /\ Knows(begun(c))
  BY <1>1 DEF Worker, Knows
<1>3. \/ /\ \E c \in Made(Now) : reviewer' = [reviewer EXCEPT ![b] = begun(c)]
         /\ Abort
      \/ /\ Made(Now) # Companies
         /\ Commit(Insert(Now, contact[b].cui, contact[b].nr))
         /\ reviewer' = [reviewer EXCEPT ![b] = begun(Fresh(Now))]
  BY DEF AssignRow
<1> HIDE DEF begun
<1>4. Database' /\ Moved(owner, owner')
  BY <1>1, <1>3, Aborted, InsertedCommitted
<1>5. PICK c \in Companies : reviewer' = [reviewer EXCEPT ![b] = begun(c)]
  BY <1>3, FreshTyped DEF Made
<1>6. reviewer' \in [Contacts -> Worker] /\ \A d \in Contacts : Knows(reviewer'[d])
  BY <1>2, <1>5, ReviewerMoves
<1>7. left' \in [promotions : 0..Promotions, enrichments : 0..Enrichments,
                 reprocesses : SUBSET Reprocessed, reviews : 0..Reviews]
  BY ConstantsAssumption DEF AssignRow, Jobs
<1> QED
  BY <1>4, <1>6, <1>7 DEF AssignRow, Jobs

LEMMA ReviewClaimsStep ==
    ASSUME Database, Jobs, NEW b \in Contacts, ReviewClaims(b)
    PROVE  Database' /\ Jobs' /\ Moved(owner, owner')
<1> DEFINE r == reviewer[b]
           k == IF r.step = "cui" THEN r.cui ELSE r.nr
<1>1. r \in Worker /\ Knows(r) /\ k \in Keys \cup {Nil}
  BY WorkerTyped DEF Jobs
<1>2. r.company \in Companies
  BY <1>1 DEF ReviewClaims, Knows
<1>3. Upsert(r.company, k, b)
  BY DEF ReviewClaims
<1> HIDE DEF k
<1>4. Database' /\ Moved(owner, owner')
  BY <1>1, <1>2, <1>3, UpsertMoves
<1>5. PICK step \in {"nr", "mark"} :
        reviewer' \in {[reviewer EXCEPT ![b] = [r EXCEPT !.step = step]],
                       [reviewer EXCEPT ![b] = Idle]}
  BY DEF ReviewClaims
<1> DEFINE begun == [r EXCEPT !.step = step]
<1>6. begun \in Worker /\ Knows(begun)
  BY <1>1, <1>2 DEF Worker, Knows
<1> HIDE DEF begun
<1>7. reviewer' = [reviewer EXCEPT ![b] = begun] \/ reviewer' = [reviewer EXCEPT ![b] = Idle]
  BY <1>5 DEF begun
<1>8. reviewer' \in [Contacts -> Worker] /\ \A d \in Contacts : Knows(reviewer'[d])
  BY <1>6, <1>7, IdleWorker, ReviewerMoves
<1> QED
  BY <1>4, <1>8 DEF ReviewClaims, Jobs

LEMMA ReviewResolvesStep ==
    ASSUME Database, Jobs, NEW b \in Contacts, ReviewResolves(b)
    PROVE  Database' /\ Jobs' /\ Moved(owner, owner')
<1> DEFINE x == [contact[b] EXCEPT !.status = "resolved", !.skip = FALSE,
                                   !.company = reviewer[b].company]
<1>1. contact[b] \in Contact /\ reviewer[b].company \in Companies \cup {Nil}
  BY WorkerTyped DEF Database, Jobs
<1>2. x \in Contact
  BY <1>1 DEF Contact, Statuses
<1>3. Commit([Now EXCEPT !.ct[b] = x])
  BY DEF ReviewResolves, Now
<1> HIDE DEF x
<1>4. Database' /\ Moved(owner, owner')
  BY <1>2, <1>3, RowCommitted
<1>5. reviewer' \in [Contacts -> Worker] /\ \A d \in Contacts : Knows(reviewer'[d])
  BY IdleWorker, ReviewerMoves DEF ReviewResolves
<1> QED
  BY <1>4, <1>5 DEF ReviewResolves, Jobs

LEMMA ReviewFailsStep ==
    ASSUME Database, Jobs, NEW b \in Contacts, ReviewFails(b)
    PROVE  Database' /\ Jobs' /\ Moved(owner, owner')
<1>1. Database' /\ Moved(owner, owner')
  BY RowsLeft DEF ReviewFails
<1>2. reviewer' \in [Contacts -> Worker] /\ \A d \in Contacts : Knows(reviewer'[d])
  BY IdleWorker, ReviewerMoves DEF ReviewFails
<1> QED
  BY <1>1, <1>2 DEF ReviewFails, Jobs

-----------------------------------------------------------------------------
(* Every step *)

Kept == Database' /\ Jobs' /\ Moved(owner, owner')

LEMMA NextStep == Database /\ Jobs /\ [Next]_vars => Kept
<1> SUFFICES ASSUME Database, Jobs, [Next]_vars PROVE Kept
  OBVIOUS
<1>1. CASE UNCHANGED vars
  <2>1. UNCHANGED <<company, owner, contact>>
    BY <1>1 DEF vars
  <2> QED
    BY <1>1, <2>1, RowsLeft DEF Kept, Jobs, vars
<1>2. CASE Ingest
  <2>1. CASE \E chunk \in Chunks : InsertRows(chunk)
    BY <2>1, InsertRowsStep DEF Kept
  <2>2. CASE IngestDies
    BY <2>2, IngestDiesStep DEF Kept
  <2>3. CASE \E b \in ingest : ResolveRow(b) \/ RowFails(b)
    BY <2>3, ResolveRowStep, RowFailsStep DEF Kept
  <2> QED
    BY <1>2, <2>1, <2>2, <2>3 DEF Ingest
<1>3. ASSUME NEW b \in Contacts, Contacted(b) PROVE Kept
  <2>1. CASE TakeAnafNr(b)
    BY <2>1, TakeAnafNrStep DEF Kept
  <2>2. CASE Backfill(b)
    BY <2>2, BackfillStep DEF Kept
  <2>3. CASE ResolveAgain(b)
    BY <2>3, ResolveAgainStep DEF Kept
  <2>4. CASE ReprocessFails(b)
    BY <2>4, ReprocessFailsStep DEF Kept
  <2>5. CASE StartPromotion(b)
    BY <2>5, StartPromotionStep DEF Kept
  <2>6. CASE FindCompany(b)
    BY <2>6, FindCompanyStep DEF Kept
  <2>7. CASE SaveCompany(b)
    BY <2>7, SaveCompanyStep DEF Kept
  <2>8. CASE ClaimKey(b)
    BY <2>8, ClaimKeyStep DEF Kept
  <2>9. CASE MarkPromoted(b)
    BY <2>9, MarkPromotedStep DEF Kept
  <2>10. CASE PromotionThrows(b)
    BY <2>10, PromotionThrowsStep DEF Kept
  <2>11. CASE RejectRow(b)
    BY <2>11, RejectRowStep DEF Kept
  <2>12. CASE AssignRow(b)
    BY <2>12, AssignRowStep DEF Kept
  <2>13. CASE ReviewClaims(b)
    BY <2>13, ReviewClaimsStep DEF Kept
  <2>14. CASE ReviewResolves(b)
    BY <2>14, ReviewResolvesStep DEF Kept
  <2>15. CASE ReviewFails(b)
    BY <2>15, ReviewFailsStep DEF Kept
  <2> QED
    BY <1>3, <2>1, <2>2, <2>3, <2>4, <2>5, <2>6, <2>7, <2>8, <2>9, <2>10, <2>11, <2>12, <2>13,
       <2>14, <2>15 DEF Contacted
<1>4. CASE \E c \in Companies : Enrich(c) \/ EnrichmentFails(c)
  BY <1>4, EnrichStep, EnrichmentFailsStep DEF Kept
<1> QED
  BY <1>1, <1>2, <1>3, <1>4 DEF Next

LEMMA Invariant == Spec => []IInv
<1>1. IInv /\ [Next]_vars => IInv'
  BY NextStep, Parts, PartsNext DEF Kept
<1> QED
  BY <1>1, InitIInv, PTL DEF Spec

-----------------------------------------------------------------------------
(* What the proofs establish *)

\* The registry, the companies, the rows and the jobs of the identity workers stay in
\* their types, whatever their transactions and deaths interleave.
THEOREM TypeCorrect == Spec => []TypeOK
<1>1. IInv => TypeOK
  BY DEF IInv
<1> QED
  BY <1>1, Invariant, PTL

LEMMA ClearResolves ==
    ASSUME NEW w, NEW b \in DOMAIN w.ct, NEW c, Clear(w, b, c),
           "status" \in DOMAIN w.ct[b]
    PROVE  Finalize(w, b, c).ct[b].status = "resolved"
<1> DEFINE entry == w.ct[b]
           taken == {k \in {entry.cui, entry.nr} \ {Nil} : w.own[k] \notin {c, Nil}}
           ct == [w.ct EXCEPT ![b] = [entry EXCEPT !.status = "resolved", !.skip = FALSE,
                                                 !.company = c]]
<1>1. taken = {}
  BY DEF Clear, Named
<1>2. Finalize(w, b, c).ct = ct
  BY <1>1 DEF Finalize
<1>3. ct[b].status = "resolved"
  OBVIOUS
<1> QED
  BY <1>2, <1>3

\* resolveBronzeContactIdentity either resolves the row or, at a conflict, writes the row's
\* rejection and nothing else, although it merges companies, makes placeholders and claims
\* keys along the way: in every state the cases of detectSingleCompanyId leave no key of the
\* row with a third company.
THEOREM ConflictLeaves == Spec => []ConflictLeavesNothing
<1>1. ASSUME IInv PROVE ConflictLeavesNothing
  <2>1. Database
    BY <1>1, Parts
  <2>2. Now \in World /\ Now.ct = contact /\ Fits(Now)
    BY <2>1, World0 DEF Database
  <2>3. ASSUME NEW b \in Contacts
        PROVE  \/ Detected(Now, b).ct[b].status = "resolved"
               \/ Detected(Now, b) = Rejected(Now, b, "identity_conflict", Nil)
    <3> DEFINE w == Now
               new == Detected(w, b)
    <3> SUFFICES new.ct[b].status = "resolved" \/ new = Rejected(w, b, "identity_conflict", Nil)
      OBVIOUS
    <3> HIDE DEF w
    <3>1. w \in World /\ DetectedForm(w, b, new)
      BY <2>2, DetectedForms DEF w
    <3> HIDE DEF new
    <3>2. CASE \E c \in Companies : Clear(w, b, c) /\ new = Finalize(w, b, c)
      <4>1. PICK c \in Companies : Clear(w, b, c) /\ new = Finalize(w, b, c)
        BY <3>2
      <4>2. Finalize(w, b, c).ct[b].status = "resolved"
        BY <3>1, <4>1, FinalizeTyped
      <4> QED
        BY <4>1, <4>2
    <3>3. CASE \E p \in Companies, s \in Companies :
                 /\ p # s
                 /\ \A k \in Named(w, b) : w.own[k] \in {p, s, Nil}
                 /\ new = Finalize(Merge(w, p, s), b, p)
      BY <3>1, <3>3, MergedMoved
    <3>4. CASE /\ \A k \in Named(w, b) : w.own[k] = Nil
               /\ new = Finalize(Insert(w, w.ct[b].cui, w.ct[b].nr), b, Fresh(w))
      <4> DEFINE i == Insert(w, w.ct[b].cui, w.ct[b].nr)
      <4>1. i.ct = w.ct /\ i.own = w.own
        BY <3>1 DEF Insert, World
      <4> HIDE DEF i
      <4>2. Clear(i, b, Fresh(w))
        BY <3>4, <4>1 DEF Clear, Named
      <4>3. b \in DOMAIN i.ct /\ "status" \in DOMAIN i.ct[b]
        BY <3>1, <4>1 DEF World, Contact
      <4>4. Finalize(i, b, Fresh(w)).ct[b].status = "resolved"
        BY <4>2, <4>3, ClearResolves
      <4> QED
        BY <3>4, <4>4 DEF i
    <3> QED
      BY <3>1, <3>2, <3>3, <3>4 DEF DetectedForm
  <2> QED
    BY <2>3 DEF ConflictLeavesNothing
<1> QED
  BY <1>1, Invariant, PTL

\* A key that has an owner keeps it, except that a merge hands over all keys of one company
\* at once: the workers implement IdentityRegistry, step by step.
THEOREM Refinement == Spec => KeysStayTogether
<1>1. Init => Registry!Init
  BY DEF Init, Registry!Init
<1>2. IInv /\ [Next]_vars => [Registry!Next]_owner
  <2> SUFFICES ASSUME Database, Jobs, [Next]_vars PROVE [Registry!Next]_owner
    BY Parts
  <2>1. Moved(owner, owner')
    BY NextStep DEF Kept
  <2>2. CASE owner' = owner
    BY <2>2
  <2>3. ASSUME NEW c \in Companies, NEW keys \in SUBSET Keys, \A k \in keys : owner[k] = Nil,
               owner' = [k \in Keys |-> IF k \in keys THEN c ELSE owner[k]]
        PROVE  Registry!Next
    <3>1. Registry!Claim(c, keys)
      BY <2>3 DEF Registry!Claim
    <3> QED
      BY <3>1 DEF Registry!Next
  <2>4. ASSUME NEW c \in Companies, NEW keys \in SUBSET Keys, \A k \in keys : owner[k] = Nil,
               NEW s \in Companies \ {c},
               owner' = [k \in Keys |-> IF owner[k] = s \/ k \in keys THEN c ELSE owner[k]]
        PROVE  Registry!Next
    <3>1. Registry!Absorb(c, s, keys)
      BY <2>4 DEF Registry!Absorb
    <3> QED
      BY <3>1 DEF Registry!Next
  <2> QED
    BY <2>1, <2>2, <2>3, <2>4 DEF Moved
<1> QED
  BY <1>1, <1>2, Invariant, PTL DEF Spec, KeysStayTogether, Registry!Spec

-----------------------------------------------------------------------------
(* Rows and the owners of their keys: a transaction moves both, or neither *)

\* A resolved row names the company that owns its key.
Mine(w, b) ==
    w.ct[b].status = "resolved" /\ Anchor(w.ct[b]) # Nil =>
        /\ w.ct[b].company \in Companies
        /\ w.ct[b].company = w.own[Anchor(w.ct[b])]

\* What a transaction does to the row of b.
Follows(w, v, b) ==
    /\ v.ct[b].cui = w.ct[b].cui /\ v.ct[b].nr = w.ct[b].nr
    /\ Mine(w, b) => Mine(v, b)

LEMMA AnchorTyped ==
    ASSUME NEW w \in World, NEW b \in Contacts, Anchor(w.ct[b]) # Nil
    PROVE  Anchor(w.ct[b]) \in Named(w, b) /\ Anchor(w.ct[b]) \in Keys
  BY NamedTyped DEF Anchor, Named

\* Keys that have an owner keep it, and a row changes its identifiers and what it is
\* resolved to only with its status.
LEMMA KeysGrow ==
    ASSUME NEW w \in World, NEW v, NEW b \in Contacts,
           \A k \in Keys : w.own[k] # Nil => v.own[k] = w.own[k],
           v.ct[b].cui = w.ct[b].cui, v.ct[b].nr = w.ct[b].nr,
           v.ct[b].status = "resolved" =>
               w.ct[b].status = "resolved" /\ v.ct[b].company = w.ct[b].company
    PROVE  Follows(w, v, b)
<1>1. Anchor(v.ct[b]) = Anchor(w.ct[b])
  BY DEF Anchor
<1>2. ASSUME Mine(w, b), v.ct[b].status = "resolved", Anchor(v.ct[b]) # Nil
      PROVE  v.ct[b].company \in Companies /\ v.ct[b].company = v.own[Anchor(v.ct[b])]
  <2>1. w.ct[b].company \in Companies /\ w.ct[b].company = w.own[Anchor(w.ct[b])]
    BY <1>1, <1>2 DEF Mine
  <2>2. Anchor(w.ct[b]) \in Keys
    BY <1>1, <1>2, AnchorTyped
  <2>3. v.own[Anchor(w.ct[b])] = w.own[Anchor(w.ct[b])]
    BY <2>1, <2>2, KeyFacts
  <2> QED
    BY <1>1, <1>2, <2>1, <2>3
<1> QED
  BY <1>2 DEF Follows, Mine

LEMMA RejectedFollows ==
    ASSUME NEW w \in World, NEW b \in Contacts, NEW outcome \in Statuses \ {"resolved"},
           NEW c \in Companies \cup {Nil}, NEW t \in Contacts
    PROVE  Follows(w, Rejected(w, b, outcome, c), t)
<1> DEFINE x == [w.ct[b] EXCEPT !.status = outcome, !.skip = TRUE, !.company = c]
           ct == [w.ct EXCEPT ![b] = x]
           v == Rejected(w, b, outcome, c)
<1> SUFFICES Follows(w, v, t)
  OBVIOUS
<1>1. x.cui = w.ct[b].cui /\ x.nr = w.ct[b].nr /\ x.status # "resolved"
  BY NamedTyped DEF Contact
<1>2. v = [w EXCEPT !.ct = ct]
  BY DEF Rejected, World
<1> HIDE DEF x
<1>3. ct[t] = IF t = b THEN x ELSE w.ct[t]
  BY DEF World
<1> HIDE DEF ct
<1>4. v.ct = ct /\ v.own = w.own
  BY <1>2 DEF World
<1> HIDE DEF v
<1>5. CASE t = b
  BY <1>1, <1>3, <1>4, <1>5, KeysGrow
<1>6. CASE t # b
  BY <1>3, <1>4, <1>6, KeysGrow
<1> QED
  BY <1>5, <1>6 DEF v

\* The row that is resolved gets all keys it names; another row's key was nobody's or the
\* same company's before.
LEMMA FinalizeFollows ==
    ASSUME NEW w \in World, NEW b \in Contacts, NEW c \in Companies, Clear(w, b, c),
           NEW t \in Contacts
    PROVE  Follows(w, Finalize(w, b, c), t)
<1> DEFINE entry == w.ct[b]
           taken == {k \in {entry.cui, entry.nr} \ {Nil} : w.own[k] \notin {c, Nil}}
           x == [entry EXCEPT !.status = "resolved", !.skip = FALSE, !.company = c]
           ct == [w.ct EXCEPT ![b] = x]
           v == Finalize(w, b, c)
<1> SUFFICES Follows(w, v, t)
  OBVIOUS
<1>1. taken = {}
  BY DEF Clear, Named
<1>2. v.ct = ct
  BY <1>1 DEF Finalize
<1>3. v.own = [k \in Keys |-> IF k \in Named(w, b) THEN c ELSE w.own[k]]
  BY FinalizeTyped
<1>4. x.cui = entry.cui /\ x.nr = entry.nr /\ x.company = c
  BY NamedTyped DEF Contact
<1> HIDE DEF x, v
<1>5. ct[t] = IF t = b THEN x ELSE w.ct[t]
  BY DEF World
<1> HIDE DEF ct
<1>6. CASE t = b
  <2>1. v.ct[t] = x
    BY <1>2, <1>5, <1>6
  <2>2. ASSUME Anchor(x) # Nil PROVE v.own[Anchor(x)] = c
    <3>1. Anchor(x) = Anchor(w.ct[b])
      BY <1>4 DEF Anchor
    <3> QED
      BY <1>3, <2>2, <3>1, AnchorTyped
  <2> QED
    BY <1>4, <1>6, <2>1, <2>2 DEF Follows, Mine
<1>7. CASE t # b
  <2>1. v.ct[t] = w.ct[t]
    BY <1>2, <1>5, <1>7
  <2>2. \A k \in Keys : w.own[k] # Nil => v.own[k] = w.own[k]
    BY <1>3 DEF Clear
  <2> QED
    BY <2>1, <2>2, KeysGrow
<1> QED
  BY <1>6, <1>7 DEF v

\* A merge takes the rows along with the keys.
LEMMA MergeFollows ==
    ASSUME NEW w \in World, NEW p \in Companies, NEW s \in Companies, NEW t \in Contacts
    PROVE  Follows(w, Merge(w, p, s), t)
<1> DEFINE moved == [w.ct[t] EXCEPT !.company = IF @ = s THEN p ELSE @,
                                    !.promoted = IF @ = s THEN p ELSE @]
           v == Merge(w, p, s)
<1>1. v.ct[t] = moved
  BY DEF Merge
<1>2. w.ct[t] \in Contact
  BY NamedTyped
<1>3. /\ moved.cui = w.ct[t].cui /\ moved.nr = w.ct[t].nr /\ moved.status = w.ct[t].status
      /\ moved.company = IF w.ct[t].company = s THEN p ELSE w.ct[t].company
  BY <1>2 DEF Contact
<1>4. v.own = [k \in Keys |-> IF w.own[k] = s THEN p ELSE w.own[k]]
  BY MergeTyped
<1> HIDE DEF moved, v
<1>5. Anchor(moved) = Anchor(w.ct[t])
  BY <1>3 DEF Anchor
<1>6. ASSUME Mine(w, t), moved.status = "resolved", Anchor(moved) # Nil
      PROVE  moved.company \in Companies /\ moved.company = v.own[Anchor(moved)]
  <2>1. w.ct[t].company \in Companies /\ w.ct[t].company = w.own[Anchor(w.ct[t])]
    BY <1>3, <1>5, <1>6 DEF Mine
  <2>2. Anchor(w.ct[t]) \in Keys
    BY <1>5, <1>6, AnchorTyped
  <2> QED
    BY <1>3, <1>4, <1>5, <2>1, <2>2
<1> QED
  BY <1>1, <1>3, <1>6 DEF Follows, Mine, v

LEMMA FollowsTwice ==
    ASSUME NEW w, NEW v, NEW u, NEW t, Follows(w, v, t), Follows(v, u, t)
    PROVE  Follows(w, u, t)
  BY DEF Follows

LEMMA DetectedFollows ==
    ASSUME NEW w \in World, Fits(w), Made(w) # Companies, NEW b \in Contacts, NEW t \in Contacts
    PROVE  Follows(w, Detected(w, b), t)
<1> DEFINE new == Detected(w, b)
<1> SUFFICES Follows(w, new, t)
  OBVIOUS
<1>1. DetectedForm(w, b, new)
  BY DetectedForms
<1> HIDE DEF new
<1>2. CASE \E c \in Companies : Clear(w, b, c) /\ new = Finalize(w, b, c)
  BY <1>2, FinalizeFollows
<1>3. CASE \E p \in Companies, s \in Companies :
             /\ p # s
             /\ \A k \in Named(w, b) : w.own[k] \in {p, s, Nil}
             /\ new = Finalize(Merge(w, p, s), b, p)
  <2>1. PICK p \in Companies, s \in Companies :
             /\ \A k \in Named(w, b) : w.own[k] \in {p, s, Nil}
             /\ new = Finalize(Merge(w, p, s), b, p)
    BY <1>3
  <2> DEFINE m == Merge(w, p, s)
  <2>2. /\ m \in World /\ m.own = [k \in Keys |-> IF w.own[k] = s THEN p ELSE w.own[k]]
        /\ m.ct[b].cui = w.ct[b].cui /\ m.ct[b].nr = w.ct[b].nr
    BY MergeTyped
  <2>3. Follows(w, m, t)
    BY MergeFollows
  <2> HIDE DEF m
  <2>4. Clear(m, b, p)
    BY <2>1, <2>2, NamedTyped DEF Clear, Named
  <2>5. Follows(m, Finalize(m, b, p), t)
    BY <2>2, <2>4, FinalizeFollows
  <2> QED
    BY <2>1, <2>3, <2>5, FollowsTwice DEF m
<1>4. CASE new = Rejected(w, b, "identity_conflict", Nil)
  BY <1>4, RejectedFollows DEF Statuses
<1>5. CASE /\ \A k \in Named(w, b) : w.own[k] = Nil
           /\ new = Finalize(Insert(w, w.ct[b].cui, w.ct[b].nr), b, Fresh(w))
  <2> DEFINE i == Insert(w, w.ct[b].cui, w.ct[b].nr)
  <2>1. i \in World /\ i.own = w.own /\ i.ct = w.ct
    BY NamedTyped, InsertTyped
  <2>2. Fresh(w) \in Companies
    BY FreshTyped
  <2> HIDE DEF i
  <2>3. Clear(i, b, Fresh(w))
    BY <1>5, <2>1 DEF Clear, Named
  <2>4. Follows(i, Finalize(i, b, Fresh(w)), t)
    BY <2>1, <2>2, <2>3, FinalizeFollows
  <2>5. Follows(w, i, t)
    BY <2>1 DEF Follows, Mine
  <2> QED
    BY <1>5, <2>4, <2>5, FollowsTwice DEF i
<1> QED
  BY <1>1, <1>2, <1>3, <1>4, <1>5 DEF DetectedForm, new

LEMMA ResolvedFollows ==
    ASSUME NEW w \in World, Fits(w), Made(w) # Companies, NEW b \in Contacts, NEW t \in Contacts
    PROVE  Follows(w, Resolved(w, b), t)
<1>1. CASE Twins(w, b) # {}
  <2>1. Twins(w, b) \subseteq Contacts /\ Twins(w, b) \subseteq Nat
    BY ConstantsAssumption DEF Twins
  <2>2. \E e \in Twins(w, b) : \A u \in Twins(w, b) : e <= u
    BY <1>1, <2>1, LeastNat
  <2>3. Eldest(Twins(w, b)) \in Contacts
    BY <2>1, <2>2 DEF Eldest
  <2> DEFINE c == w.ct[Eldest(Twins(w, b))].company
  <2>4. c \in Companies \cup {Nil}
    BY <2>3, NamedTyped DEF Contact
  <2>5. Resolved(w, b) = Rejected(w, b, "duplicate_source", c)
    BY <1>1 DEF Resolved
  <2> HIDE DEF c
  <2>6. "duplicate_source" \in Statuses \ {"resolved"}
    BY DEF Statuses
  <2> QED
    BY <2>4, <2>5, <2>6, RejectedFollows
<1>2. CASE Twins(w, b) = {} /\ w.ct[b].cui = Nil /\ w.ct[b].nr = Nil
  <2>1. Resolved(w, b) = Rejected(w, b, "insufficient_identifiers", Nil)
    BY <1>2 DEF Resolved
  <2>2. "insufficient_identifiers" \in Statuses \ {"resolved"}
    BY DEF Statuses
  <2> QED
    BY <2>1, <2>2, RejectedFollows
<1>3. CASE Twins(w, b) = {} /\ ~ (w.ct[b].cui = Nil /\ w.ct[b].nr = Nil)
  <2>1. Resolved(w, b) = Detected(w, b)
    BY <1>3 DEF Resolved
  <2> QED
    BY <2>1, DetectedFollows
<1> QED
  BY <1>1, <1>2, <1>3

\* A claim leaves the keys that are taken, and gives the company the one it asked for
\* unless it is somebody else's.
LEMMA UpsertedFollows ==
    ASSUME NEW w \in World, NEW c \in Companies, NEW k \in Keys, NEW b \in Contacts \cup {Nil}
    PROVE  /\ \A t \in Contacts : Follows(w, Upserted(w, c, k, b), t)
           /\ \A j \in Keys : w.own[j] # Nil => Upserted(w, c, k, b).own[j] = w.own[j]
           /\ w.own[k] \in {c, Nil} => Upserted(w, c, k, b).own[k] = c
<1> DEFINE v == Upserted(w, c, k, b)
<1>1. CASE w.own[k] \notin {c, Nil} /\ b = Nil
  <2>1. v = w
    BY <1>1 DEF Upserted
  <2> QED
    BY <1>1, <2>1 DEF Follows
<1>2. CASE w.own[k] \notin {c, Nil} /\ b # Nil
  <2>1. v = Rejected(w, b, "identity_conflict", Nil)
    BY <1>2 DEF Upserted
  <2>2. "identity_conflict" \in Statuses \ {"resolved"}
    BY DEF Statuses
  <2>3. b \in Contacts
    BY <1>2
  <2>4. v.own = w.own
    BY <2>1, <2>3, RejectedTyped, <2>2
  <2> QED
    BY <1>2, <2>1, <2>2, <2>3, <2>4, RejectedFollows
<1>3. CASE w.own[k] \in {c, Nil}
  <2> DEFINE x == IF k \in Cuis THEN [w.co[c] EXCEPT !.cui = k] ELSE [w.co[c] EXCEPT !.nr = k]
             own == [w.own EXCEPT ![k] = c]
             co == [w.co EXCEPT ![c] = x]
  <2>1. v = [w EXCEPT !.own = own, !.co = co]
    BY <1>3 DEF Upserted, World
  <2>2. \A j \in Keys : own[j] = IF j = k THEN c ELSE w.own[j]
    BY DEF World
  <2> HIDE DEF own, co, v
  <2>3. v.own = own /\ v.ct = w.ct
    BY <2>1 DEF World
  <2>4. \A j \in Keys : w.own[j] # Nil => v.own[j] = w.own[j]
    BY <1>3, <2>2, <2>3
  <2>5. \A t \in Contacts : Follows(w, v, t)
    BY <2>3, <2>4, KeysGrow
  <2> QED
    BY <2>2, <2>3, <2>4, <2>5 DEF v
<1> QED
  BY <1>1, <1>2, <1>3

-----------------------------------------------------------------------------
(* The invariant of the rows and of the reviews *)

\* Whatever else is filled in, the identifiers that find the row's company are those it was
\* imported with.
RowNames(entry, b) == entry.cui = Given[b].cui /\ (entry.cui = Nil => entry.nr = Given[b].nr)

\* A review has claimed the key that finds its row's company.
Claimed(r) ==
    Anchor(r) # Nil /\ (r.step = "mark" \/ (r.step = "nr" /\ r.cui # Nil))

RowInv == \A b \in Contacts : RowNames(contact[b], b) /\ (b \notin overtaken => Mine(Now, b))

ReviewOf(b) ==
    reviewer[b].step # "idle" =>
        /\ RowNames(reviewer[b], b)
        /\ b \notin overtaken /\ Claimed(reviewer[b]) =>
             owner[Anchor(reviewer[b])] = reviewer[b].company

ReviewInv == \A b \in Contacts : ReviewOf(b)

OwnInv == RowInv /\ ReviewInv

LEMMA InitOwn == Init => OwnInv
<1> SUFFICES ASSUME Init, NEW b \in Contacts
             PROVE  RowNames(contact[b], b) /\ Mine(Now, b) /\ ReviewOf(b)
  BY DEF OwnInv, RowInv, ReviewInv
<1>1. /\ contact[b].cui = Given[b].cui /\ contact[b].nr = Given[b].nr
      /\ contact[b].status = "absent" /\ reviewer[b].step = "idle"
  BY DEF Init, Idle
<1> QED
  BY <1>1 DEF RowNames, Mine, Now, ReviewOf

\* The key of a review is a key, and its company one.
LEMMA ReviewTyped ==
    ASSUME Jobs, NEW b \in Contacts, Claimed(reviewer[b])
    PROVE  Anchor(reviewer[b]) \in Keys /\ reviewer[b].company \in Companies
<1>1. reviewer[b] \in Worker /\ Knows(reviewer[b])
  BY DEF Jobs
<1> QED
  BY <1>1, WorkerTyped, KeyFacts DEF Claimed, Anchor, Knows

\* A review that takes no step keeps its key when the owned keys stay.
LEMMA ReviewKept ==
    ASSUME Jobs, ReviewInv, NEW b \in Contacts, reviewer'[b] = reviewer[b],
           overtaken \subseteq overtaken',
           \A k \in Keys : owner[k] # Nil => owner'[k] = owner[k]
    PROVE  ReviewOf(b)'
<1>1. ReviewOf(b)
  BY DEF ReviewInv
<1>2. ASSUME reviewer[b].step # "idle", b \notin overtaken', Claimed(reviewer[b])
      PROVE  owner'[Anchor(reviewer[b])] = reviewer[b].company
  <2>1. owner[Anchor(reviewer[b])] = reviewer[b].company
    BY <1>1, <1>2 DEF ReviewOf
  <2> QED
    BY <1>2, <2>1, ReviewTyped, KeyFacts
<1>3. Anchor(reviewer'[b]) = Anchor(reviewer[b]) /\ Claimed(reviewer'[b]) = Claimed(reviewer[b])
  BY DEF Anchor, Claimed
<1> QED
  BY <1>1, <1>2, <1>3 DEF ReviewOf

\* A worker changes rows, and neither keys nor reviews.
LEMMA RowsKeep ==
    ASSUME Database, Jobs, OwnInv, UNCHANGED <<owner, reviewer, overtaken>>,
           \A b \in Contacts :
             /\ RowNames(contact'[b], b)
             /\ contact'[b].status = "resolved" =>
                  contact[b].status = "resolved" /\ contact'[b].company = contact[b].company
    PROVE  OwnInv'
<1>1. ASSUME NEW b \in Contacts, b \notin overtaken' PROVE Mine(Now, b)'
  <2>1. Mine(Now, b) /\ RowNames(contact[b], b) /\ RowNames(contact'[b], b)
    BY <1>1 DEF OwnInv, RowInv
  <2>2. Anchor(contact'[b]) = Anchor(contact[b])
    BY <2>1 DEF RowNames, Anchor
  <2> QED
    BY <2>1, <2>2 DEF Mine, Now
<1>2. \A b \in Contacts : ReviewOf(b)'
  BY ReviewKept DEF OwnInv
<1> QED
  BY <1>1, <1>2 DEF OwnInv, RowInv, ReviewInv

LEMMA NothingMoves ==
    ASSUME Database, Jobs, OwnInv, UNCHANGED <<owner, contact, reviewer, overtaken>>
    PROVE  OwnInv'
<1>1. \A b \in Contacts : RowNames(contact'[b], b)
  BY DEF OwnInv, RowInv
<1> QED
  BY <1>1, RowsKeep

\* A transaction that moves rows with their keys.
LEMMA TransactionKeeps ==
    ASSUME Database, OwnInv, NEW w, owner' = w.own, contact' = w.ct,
           \A t \in Contacts : Follows(Now, w, t), overtaken \subseteq overtaken'
    PROVE  RowInv'
<1> SUFFICES ASSUME NEW t \in Contacts
             PROVE  RowNames(contact'[t], t) /\ (t \notin overtaken' => Mine(Now, t)')
  BY DEF RowInv
<1>1. Follows(Now, w, t)
  OBVIOUS
<1>2. RowNames(contact[t], t) /\ (t \notin overtaken' => Mine(Now, t))
  BY DEF OwnInv, RowInv
<1>3. contact'[t].cui = contact[t].cui /\ contact'[t].nr = contact[t].nr
  BY <1>1 DEF Follows, Now
<1>4. Mine(w, t) => Mine(Now, t)'
  BY DEF Mine, Now
<1> QED
  BY <1>1, <1>2, <1>3, <1>4 DEF Follows, RowNames

LEMMA ResolutionKeeps ==
    ASSUME Database, Jobs, OwnInv, NEW b \in Contacts, Made(Now) # Companies,
           Commit(Resolved(Now, b)), Overtake, UNCHANGED reviewer
    PROVE  OwnInv'
<1> DEFINE w == Resolved(Now, b)
<1>1. Now \in World /\ Fits(Now)
  BY World0 DEF Database
<1>2. \A t \in Contacts : Follows(Now, w, t)
  BY <1>1, ResolvedFollows
<1>3. owner' = w.own /\ contact' = w.ct
  BY DEF Commit
<1> HIDE DEF w
<1>4. overtaken \subseteq overtaken'
  BY DEF Overtake
<1>5. RowInv'
  BY <1>2, <1>3, <1>4, TransactionKeeps
<1>6. ASSUME NEW t \in Contacts PROVE ReviewOf(t)'
  <2>1. ReviewOf(t)
    BY DEF OwnInv, ReviewInv
  <2>2. Anchor(reviewer'[t]) = Anchor(reviewer[t]) /\ Claimed(reviewer'[t]) = Claimed(reviewer[t])
    BY DEF Anchor, Claimed
  <2>3. ASSUME reviewer[t].step # "idle", t \notin overtaken', Claimed(reviewer[t])
        PROVE  owner'[Anchor(reviewer[t])] = reviewer[t].company
    <3>1. owner[Anchor(reviewer[t])] = reviewer[t].company
      BY <1>4, <2>1, <2>3 DEF ReviewOf
    <3>2. Anchor(reviewer[t]) # Nil
      BY <2>3 DEF Claimed
    <3> QED
      BY <2>3, <3>1, <3>2 DEF Overtake
  <2> QED
    BY <2>1, <2>2, <2>3 DEF ReviewOf
<1> QED
  BY <1>5, <1>6 DEF OwnInv, ReviewInv

\* A claim, by whomever.
LEMMA UpsertKeeps ==
    ASSUME Database, OwnInv, NEW c \in Companies, NEW k \in Keys \cup {Nil},
           NEW b \in Contacts \cup {Nil}, Upsert(c, k, b), overtaken' = overtaken
    PROVE  /\ RowInv'
           /\ \A j \in Keys : owner[j] # Nil => owner'[j] = owner[j]
           /\ k # Nil /\ owner[k] \in {c, Nil} => owner'[k] = c
<1>1. CASE k = Nil
  <2>1. owner' = owner /\ contact' = contact
    BY <1>1 DEF Upsert, Abort
  <2>2. RowInv'
    BY <2>1 DEF OwnInv, RowInv, Mine, Now
  <2> QED
    BY <1>1, <2>1, <2>2
<1>2. CASE k # Nil
  <2> DEFINE w == Upserted(Now, c, k, b)
  <2>1. Now \in World /\ Now.own = owner
    BY World0
  <2>2. /\ \A t \in Contacts : Follows(Now, w, t)
        /\ \A j \in Keys : owner[j] # Nil => w.own[j] = owner[j]
        /\ owner[k] \in {c, Nil} => w.own[k] = c
    BY <1>2, <2>1, UpsertedFollows
  <2>3. owner' = w.own /\ contact' = w.ct
    BY <1>2 DEF Upsert, Commit
  <2> HIDE DEF w
  <2>4. RowInv'
    BY <2>2, <2>3, TransactionKeeps
  <2> QED
    BY <2>2, <2>3, <2>4
<1> QED
  BY <1>1, <1>2

-----------------------------------------------------------------------------
(* Every step keeps the rows with their owners *)

LEMMA RowActionsKeep ==
    ASSUME Database, Jobs, OwnInv,
           \/ \E chunk \in Chunks : InsertRows(chunk)
           \/ \E b \in ingest : RowFails(b)
           \/ \E b \in Contacts : TakeAnafNr(b) \/ Backfill(b) \/ MarkPromoted(b)
    PROVE  OwnInv'
<1> DEFINE Good(b) == /\ RowNames(contact'[b], b)
                      /\ contact'[b].status = "resolved" =>
                           /\ contact[b].status = "resolved"
                           /\ contact'[b].company = contact[b].company
<1>1. contact \in [Contacts -> Contact] /\ ingest \subseteq Contacts
  BY DEF Database, Jobs
<1>2. \A t \in Contacts : contact[t] \in Contact /\ RowNames(contact[t], t)
  BY <1>1 DEF OwnInv, RowInv
<1>3. ASSUME NEW b \in Contacts, NEW x, contact' = [contact EXCEPT ![b] = x],
             RowNames(x, b), x.status = contact[b].status, x.company = contact[b].company
      PROVE  \A t \in Contacts : Good(t)
  <2>1. ASSUME NEW t \in Contacts PROVE contact'[t] = IF t = b THEN x ELSE contact[t]
    BY <1>1, <1>3
  <2> QED
    BY <1>2, <1>3, <2>1
<1>4. CASE \E chunk \in Chunks : InsertRows(chunk)
  <2>1. PICK chunk \in Chunks : InsertRows(chunk)
    BY <1>4
  <2>2. ASSUME NEW t \in Contacts PROVE Good(t)
    <3> DEFINE x == [contact[t] EXCEPT !.status = "unresolved"]
    <3>1. x.status # "resolved" /\ x.cui = contact[t].cui /\ x.nr = contact[t].nr
      BY <1>2 DEF Contact
    <3>2. contact'[t] = IF t \in chunk THEN x ELSE contact[t]
      BY <2>1 DEF InsertRows
    <3> HIDE DEF x
    <3> QED
      BY <1>2, <3>1, <3>2 DEF RowNames
  <2> HIDE DEF Good
  <2>3. \A t \in Contacts : Good(t)
    BY <2>2
  <2> QED
    BY <2>1, <2>3, RowsKeep DEF InsertRows, Good
<1>5. CASE \E b \in ingest : RowFails(b)
  <2>1. PICK b \in Contacts : RowFails(b)
    BY <1>1, <1>5
  <2> DEFINE x == [contact[b] EXCEPT !.skip = TRUE]
  <2>2. /\ x.status = contact[b].status /\ x.company = contact[b].company
        /\ x.cui = contact[b].cui /\ x.nr = contact[b].nr
    BY <1>2 DEF Contact
  <2>3. contact' = [contact EXCEPT ![b] = x]
    BY <2>1 DEF RowFails
  <2> HIDE DEF x
  <2>4. \A t \in Contacts : Good(t)
    BY <1>2, <1>3, <2>2, <2>3 DEF RowNames
  <2> QED
    BY <2>1, <2>4, RowsKeep DEF RowFails
<1>6. ASSUME NEW b \in Contacts, TakeAnafNr(b) PROVE OwnInv'
  <2> DEFINE x == [contact[b] EXCEPT !.nr = AnafNr[contact[b].cui]]
  <2>1. /\ x.status = contact[b].status /\ x.company = contact[b].company
        /\ x.cui = contact[b].cui /\ x.cui # Nil
    BY <1>2, <1>6 DEF Contact, TakeAnafNr
  <2>2. contact' = [contact EXCEPT ![b] = x]
    BY <1>6 DEF TakeAnafNr
  <2> HIDE DEF x
  <2>3. \A t \in Contacts : Good(t)
    BY <1>2, <1>3, <2>1, <2>2 DEF RowNames
  <2> QED
    BY <1>6, <2>3, RowsKeep DEF TakeAnafNr
<1>7. ASSUME NEW b \in Contacts, Backfill(b) PROVE OwnInv'
  <2> DEFINE x == Identified(contact[b], Given[b].cui, Given[b].nr)
  <2>1. /\ x.status = contact[b].status /\ x.company = contact[b].company
        /\ x.cui = IF Given[b].cui = Nil THEN contact[b].cui ELSE Given[b].cui
        /\ x.nr = IF Given[b].nr = Nil THEN contact[b].nr ELSE Given[b].nr
    BY <1>2 DEF Contact, Identified
  <2>2. contact' = [contact EXCEPT ![b] = x]
    BY <1>7 DEF Backfill
  <2> HIDE DEF x
  <2>3. RowNames(x, b)
    BY <1>2, <2>1 DEF RowNames
  <2>4. \A t \in Contacts : Good(t)
    BY <1>3, <2>1, <2>2, <2>3
  <2> QED
    BY <1>7, <2>4, RowsKeep DEF Backfill
<1>8. ASSUME NEW b \in Contacts, MarkPromoted(b) PROVE OwnInv'
  <2> DEFINE x == [contact[b] EXCEPT !.promoted = promoter[b].company]
  <2>1. /\ x.status = contact[b].status /\ x.company = contact[b].company
        /\ x.cui = contact[b].cui /\ x.nr = contact[b].nr
    BY <1>2 DEF Contact
  <2>2. contact' = [contact EXCEPT ![b] = x]
    BY <1>8 DEF MarkPromoted
  <2> HIDE DEF x
  <2>3. \A t \in Contacts : Good(t)
    BY <1>2, <1>3, <2>1, <2>2 DEF RowNames
  <2> QED
    BY <1>8, <2>3, RowsKeep DEF MarkPromoted
<1> QED
  BY <1>4, <1>5, <1>6, <1>7, <1>8

\* Saving a company, or making one, changes no key and no row.
LEMMA SavedStays ==
    ASSUME Database, NEW w, w.own = Now.own, w.ct = Now.ct, Commit(w)
    PROVE  owner' = owner /\ contact' = contact
  BY World0 DEF Commit

LEMMA SaveSame ==
    ASSUME Database, NEW c \in Companies, NEW cui, NEW nr,
           Commit([Now EXCEPT !.co[c] = Identified(@, cui, nr)])
    PROVE  owner' = owner /\ contact' = contact
<1> DEFINE w == [Now EXCEPT !.co[c] = Identified(@, cui, nr)]
<1>1. w.own = Now.own /\ w.ct = Now.ct
  BY World0 DEF World
<1> HIDE DEF w
<1> QED
  BY <1>1, SavedStays DEF w

LEMMA InsertSame ==
    ASSUME Database, NEW cui, NEW nr, Commit(Insert(Now, cui, nr))
    PROVE  owner' = owner /\ contact' = contact
<1> DEFINE w == Insert(Now, cui, nr)
<1>1. w.own = Now.own /\ w.ct = Now.ct
  BY World0 DEF World, Insert
<1> HIDE DEF w
<1> QED
  BY <1>1, SavedStays DEF w

LEMMA SaveCompanyKeeps ==
    ASSUME Database, Jobs, OwnInv, NEW b \in Contacts, SaveCompany(b)
    PROVE  OwnInv'
<1> DEFINE p == promoter[b]
<1>1. p \in Worker /\ p.cui \in Cuis \cup {Nil} /\ p.nr \in Nrs \cup {Nil}
      /\ p.company \in Companies \cup {Nil}
  BY WorkerTyped DEF Jobs
<1>2. ByIdentifiers(p.cui, p.nr) \subseteq Companies
  BY <1>1, ByIdentifiersTyped
<1>3. owner' = owner /\ contact' = contact
  <2>1. \/ \E c \in Companies : Commit([Now EXCEPT !.co[c] = Identified(@, Nil, p.nr)])
        \/ Commit(Insert(Now, p.cui, p.nr))
    BY <1>1, <1>2 DEF SaveCompany
  <2> QED
    BY <2>1, SaveSame, InsertSame
<1> QED
  BY <1>3, NothingMoves DEF SaveCompany

\* A claim of the promotion or of D1.
LEMMA ClaimsKeep ==
    ASSUME Database, Jobs, OwnInv, NEW c \in Companies, NEW k \in Keys \cup {Nil},
           NEW b \in Contacts \cup {Nil}, Upsert(c, k, b), UNCHANGED <<reviewer, overtaken>>
    PROVE  OwnInv'
<1>1. RowInv' /\ \A j \in Keys : owner[j] # Nil => owner'[j] = owner[j]
  BY UpsertKeeps DEF OwnInv
<1>2. \A t \in Contacts : ReviewOf(t)'
  BY <1>1, ReviewKept DEF OwnInv
<1> QED
  BY <1>1, <1>2 DEF OwnInv, ReviewInv

LEMMA ClaimKeyKeeps ==
    ASSUME Database, Jobs, OwnInv, NEW b \in Contacts, ClaimKey(b)
    PROVE  OwnInv'
<1> DEFINE p == promoter[b]
<1>1. p \in Worker /\ Knows(p) /\ p.cui \in Keys \cup {Nil} /\ p.nr \in Keys \cup {Nil}
  BY WorkerTyped DEF Jobs
<1>2. p.company \in Companies
  BY <1>1 DEF ClaimKey, Knows
<1>3. Upsert(p.company, p.cui, b) \/ Upsert(p.company, p.nr, b)
  BY DEF ClaimKey
<1> QED
  BY <1>1, <1>2, <1>3, ClaimsKeep DEF ClaimKey

LEMMA EnrichKeeps ==
    ASSUME Database, Jobs, OwnInv, NEW c \in Companies, Enrich(c)
    PROVE  OwnInv'
<1> DEFINE e == enricher[c]
<1>1. e \in Worker /\ e.cui \in Keys \cup {Nil} /\ e.nr \in Keys \cup {Nil}
  BY WorkerTyped DEF Jobs
<1>2. \/ Commit([Now EXCEPT !.co[c] = Identified(@, e.cui, e.nr)])
      \/ Upsert(c, e.cui, Nil) \/ Upsert(c, e.nr, Nil)
  BY DEF Enrich
<1>3. UNCHANGED <<reviewer, overtaken>>
  BY DEF Enrich
<1>4. CASE Commit([Now EXCEPT !.co[c] = Identified(@, e.cui, e.nr)])
  BY <1>3, <1>4, SaveSame, NothingMoves
<1>5. CASE Upsert(c, e.cui, Nil) \/ Upsert(c, e.nr, Nil)
  BY <1>1, <1>3, <1>5, ClaimsKeep
<1> QED
  BY <1>2, <1>4, <1>5

LEMMA RejectRowKeeps ==
    ASSUME Database, Jobs, OwnInv, NEW b \in Contacts, RejectRow(b)
    PROVE  OwnInv'
<1> DEFINE x == [contact[b] EXCEPT !.status = "identity_conflict", !.skip = TRUE]
           ct == [contact EXCEPT ![b] = x]
           w == [Now EXCEPT !.ct[b] = x]
<1>1. contact \in [Contacts -> Contact] /\ contact[b] \in Contact
  BY DEF Database
<1>2. x.status # "resolved" /\ x.cui = contact[b].cui /\ x.nr = contact[b].nr
  BY <1>1 DEF Contact
<1>3. Commit(w)
  BY DEF RejectRow, Now
<1> HIDE DEF x
<1>4. w.own = owner /\ w.ct = ct
  BY DEF Now
<1> HIDE DEF w
<1>5. owner' = owner /\ contact' = ct
  BY <1>3, <1>4 DEF Commit
<1>6. ASSUME NEW t \in Contacts
      PROVE  /\ RowNames(contact'[t], t)
             /\ contact'[t].status = "resolved" =>
                  contact[t].status = "resolved" /\ contact'[t].company = contact[t].company
  <2>1. contact'[t] = IF t = b THEN x ELSE contact[t]
    BY <1>1, <1>5
  <2>2. RowNames(contact[t], t)
    BY DEF OwnInv, RowInv
  <2> QED
    BY <1>2, <2>1, <2>2 DEF RowNames
<1>7. UNCHANGED <<owner, reviewer, overtaken>>
  BY <1>5 DEF RejectRow
<1> HIDE DEF ct
<1> QED
  BY <1>6, <1>7, RowsKeep

\* A review of b takes another step, and everything else keeps its key.
LEMMA ReviewsKeep ==
    ASSUME Database, Jobs, OwnInv, NEW b \in Contacts, NEW begun,
           reviewer' = [reviewer EXCEPT ![b] = begun], overtaken' = overtaken,
           \A k \in Keys : owner[k] # Nil => owner'[k] = owner[k],
           begun.step # "idle" =>
             /\ RowNames(begun, b)
             /\ b \notin overtaken /\ Claimed(begun) => owner'[Anchor(begun)] = begun.company
    PROVE  ReviewInv'
<1>1. ASSUME NEW t \in Contacts PROVE ReviewOf(t)'
  <2>1. reviewer'[t] = IF t = b THEN begun ELSE reviewer[t]
    BY DEF Jobs
  <2>2. CASE t = b
    BY <2>1, <2>2 DEF ReviewOf
  <2>3. CASE t # b
    BY <2>1, <2>3, ReviewKept DEF OwnInv
  <2> QED
    BY <2>2, <2>3
<1> QED
  BY <1>1 DEF ReviewInv

LEMMA AssignRowKeeps ==
    ASSUME Database, Jobs, OwnInv, NEW b \in Contacts, AssignRow(b)
    PROVE  OwnInv'
<1> DEFINE begun(c) == [step |-> "cui", cui |-> contact[b].cui, nr |-> contact[b].nr,
                        row |-> Nil, company |-> c]
<1>1. /\ overtaken' = overtaken
      /\ \/ /\ \E c \in Made(Now) : reviewer' = [reviewer EXCEPT ![b] = begun(c)]
            /\ Abort
         \/ /\ Commit(Insert(Now, contact[b].cui, contact[b].nr))
            /\ reviewer' = [reviewer EXCEPT ![b] = begun(Fresh(Now))]
  BY DEF AssignRow
<1>2. PICK c : reviewer' = [reviewer EXCEPT ![b] = begun(c)]
  BY <1>1
<1>3. RowNames(contact[b], b)
  BY DEF OwnInv, RowInv
<1>4. RowNames(begun(c), b) /\ ~Claimed(begun(c))
  BY <1>3 DEF RowNames, Claimed
<1> HIDE DEF begun
<1>5. owner' = owner /\ contact' = contact
  BY <1>1, InsertSame DEF Abort
<1>6. RowInv'
  BY <1>1, <1>5 DEF OwnInv, RowInv, Mine, Now
<1>7. ReviewInv'
  BY <1>1, <1>2, <1>4, <1>5, ReviewsKeep
<1> QED
  BY <1>6, <1>7 DEF OwnInv

LEMMA ReviewClaimsKeeps ==
    ASSUME Database, Jobs, OwnInv, NEW b \in Contacts, ReviewClaims(b)
    PROVE  OwnInv'
<1> DEFINE r == reviewer[b]
           k == IF r.step = "cui" THEN r.cui ELSE r.nr
           taken == k # Nil /\ owner[k] \notin {r.company, Nil}
           next == IF r.step = "cui" THEN "nr" ELSE "mark"
           begun == [r EXCEPT !.step = next]
<1>1. /\ r \in Worker /\ Knows(r) /\ r.step \in {"cui", "nr"}
      /\ r.cui \in Keys \cup {Nil} /\ r.nr \in Keys \cup {Nil}
  BY WorkerTyped DEF Jobs, ReviewClaims
<1>2. r.company \in Companies /\ k \in Keys \cup {Nil}
  BY <1>1 DEF Knows
<1>3. /\ Upsert(r.company, k, b) /\ overtaken' = overtaken
      /\ reviewer' = [reviewer EXCEPT ![b] = IF taken THEN Idle ELSE begun]
  BY DEF ReviewClaims
<1>4. /\ begun.step = next /\ begun.cui = r.cui /\ begun.nr = r.nr /\ begun.company = r.company
  BY <1>1 DEF Worker
<1>5. ReviewOf(b)
  BY DEF OwnInv, ReviewInv
<1>6. Anchor(begun) = Anchor(r)
  BY <1>4 DEF Anchor
<1>7. /\ RowInv'
      /\ \A j \in Keys : owner[j] # Nil => owner'[j] = owner[j]
      /\ k # Nil /\ ~taken => owner'[k] = r.company
  <2> HIDE DEF k
  <2> QED
    BY <1>2, <1>3, UpsertKeeps
<1>8. CASE taken
  <2>1. Idle.step = "idle"
    BY DEF Idle
  <2>2. reviewer' = [reviewer EXCEPT ![b] = Idle]
    BY <1>3, <1>8
  <2>3. ReviewInv'
    BY <1>3, <1>7, <2>1, <2>2, ReviewsKeep
  <2> QED
    BY <1>7, <2>3 DEF OwnInv
<1>9. CASE ~taken
  <2>1. RowNames(begun, b)
    BY <1>1, <1>4, <1>5 DEF ReviewOf, RowNames
  <2>2. ASSUME b \notin overtaken, Claimed(begun) PROVE owner'[Anchor(begun)] = begun.company
    <3>1. CASE r.step = "cui"
      <4>1. Anchor(begun) = k /\ k # Nil
        BY <1>4, <2>2, <3>1 DEF Claimed, Anchor
      <4> QED
        BY <1>4, <1>7, <1>9, <4>1
    <3>2. CASE r.step = "nr" /\ r.cui = Nil
      <4>1. Anchor(begun) = k /\ k # Nil
        BY <1>4, <2>2, <3>2 DEF Claimed, Anchor
      <4> QED
        BY <1>4, <1>7, <1>9, <4>1
    <3>3. CASE r.step = "nr" /\ r.cui # Nil
      <4>1. Claimed(r) /\ Anchor(r) = r.cui
        BY <3>3 DEF Claimed, Anchor
      <4>2. owner[r.cui] = r.company
        BY <1>5, <2>2, <3>3, <4>1 DEF ReviewOf
      <4>3. r.cui \in Keys /\ owner[r.cui] # Nil
        BY <1>1, <1>2, <3>3, <4>2, KeyFacts
      <4>4. owner'[r.cui] = owner[r.cui]
        BY <1>7, <4>3
      <4> QED
        BY <1>4, <1>6, <4>1, <4>2, <4>4
    <3> QED
      BY <1>1, <3>1, <3>2, <3>3
  <2>3. reviewer' = [reviewer EXCEPT ![b] = begun]
    BY <1>3, <1>9
  <2> HIDE DEF begun
  <2>4. ReviewInv'
    BY <1>3, <1>7, <2>1, <2>2, <2>3, ReviewsKeep
  <2> QED
    BY <1>7, <2>4 DEF OwnInv
<1> QED
  BY <1>8, <1>9

\* The row is written with the company of the review, which still has the row's key unless
\* the review was overtaken.
LEMMA ReviewResolvesKeeps ==
    ASSUME Database, Jobs, OwnInv, NEW b \in Contacts, ReviewResolves(b)
    PROVE  OwnInv'
<1> DEFINE r == reviewer[b]
           x == [contact[b] EXCEPT !.status = "resolved", !.skip = FALSE, !.company = r.company]
           ct == [contact EXCEPT ![b] = x]
           w == [Now EXCEPT !.ct[b] = x]
<1>1. contact \in [Contacts -> Contact] /\ contact[b] \in Contact
  BY DEF Database
<1>2. x.cui = contact[b].cui /\ x.nr = contact[b].nr /\ x.company = r.company
  BY <1>1 DEF Contact
<1>3. Commit(w) /\ r.step = "mark"
  BY DEF ReviewResolves, Now
<1> HIDE DEF x
<1>4. w.own = owner /\ w.ct = ct
  BY DEF Now
<1> HIDE DEF w
<1>5. owner' = owner /\ contact' = ct
  BY <1>3, <1>4 DEF Commit
<1>6. ASSUME NEW t \in Contacts
      PROVE  RowNames(contact'[t], t) /\ (t \notin overtaken => Mine(Now, t)')
  <2>1. contact'[t] = IF t = b THEN x ELSE contact[t]
    BY <1>1, <1>5
  <2>2. RowNames(contact[t], t) /\ (t \notin overtaken => Mine(Now, t))
    BY DEF OwnInv, RowInv
  <2>3. CASE t # b
    BY <1>5, <2>1, <2>2, <2>3 DEF Mine, Now
  <2>4. CASE t = b
    <3>1. RowNames(x, b)
      BY <1>2, <2>2, <2>4 DEF RowNames
    <3>2. ASSUME b \notin overtaken, Anchor(x) # Nil
          PROVE  r.company \in Companies /\ r.company = owner[Anchor(x)]
      <4>1. ReviewOf(b)
        BY DEF OwnInv, ReviewInv
      <4>2. RowNames(r, b)
        BY <1>3, <4>1 DEF ReviewOf
      <4>3. Anchor(r) = Anchor(x)
        BY <3>1, <4>2 DEF RowNames, Anchor
      <4>4. Claimed(r)
        BY <1>3, <3>2, <4>3 DEF Claimed
      <4> QED
        BY <1>3, <3>2, <4>1, <4>3, <4>4, ReviewTyped DEF ReviewOf
    <3> QED
      BY <1>2, <1>5, <2>1, <2>4, <3>1, <3>2 DEF Mine, Now
  <2> QED
    BY <2>3, <2>4
<1>7. overtaken' = overtaken /\ reviewer' = [reviewer EXCEPT ![b] = Idle]
  BY DEF ReviewResolves
<1>8. ReviewInv'
  <2>1. Idle.step = "idle"
    BY DEF Idle
  <2> QED
    BY <1>5, <1>7, <2>1, ReviewsKeep
<1> QED
  BY <1>6, <1>7, <1>8 DEF OwnInv, RowInv

LEMMA ReviewFailsKeeps ==
    ASSUME Database, Jobs, OwnInv, NEW b \in Contacts, ReviewFails(b)
    PROVE  OwnInv'
<1>1. /\ UNCHANGED <<owner, contact, overtaken>>
      /\ reviewer' = [reviewer EXCEPT ![b] = Idle] /\ Idle.step = "idle"
  BY DEF ReviewFails, Idle
<1>2. RowInv'
  BY <1>1 DEF OwnInv, RowInv, Mine, Now
<1>3. ReviewInv'
  BY <1>1, ReviewsKeep
<1> QED
  BY <1>2, <1>3 DEF OwnInv

LEMMA OwnStep == Database /\ Jobs /\ OwnInv /\ [Next]_vars => OwnInv'
<1> SUFFICES ASSUME Database, Jobs, OwnInv, [Next]_vars PROVE OwnInv'
  OBVIOUS
<1>1. CASE UNCHANGED vars
  BY <1>1, NothingMoves DEF vars
<1>2. CASE Ingest
  <2>1. CASE \E chunk \in Chunks : InsertRows(chunk)
    BY <2>1, RowActionsKeep
  <2>2. CASE IngestDies
    BY <2>2, NothingMoves DEF IngestDies
  <2>3. CASE \E b \in ingest : RowFails(b)
    BY <2>3, RowActionsKeep
  <2>4. CASE \E b \in ingest : ResolveRow(b)
    <3>1. PICK b \in Contacts : ResolveRow(b)
      BY <2>4 DEF Jobs
    <3> QED
      BY <3>1, ResolutionKeeps DEF ResolveRow
  <2> QED
    BY <1>2, <2>1, <2>2, <2>3, <2>4 DEF Ingest
<1>3. ASSUME NEW b \in Contacts, Contacted(b) PROVE OwnInv'
  <2>1. CASE TakeAnafNr(b) \/ Backfill(b) \/ MarkPromoted(b)
    BY <2>1, RowActionsKeep
  <2>2. CASE ResolveAgain(b)
    BY <2>2, ResolutionKeeps DEF ResolveAgain
  <2>3. CASE ReprocessFails(b)
    BY <2>3, NothingMoves DEF ReprocessFails
  <2>4. CASE StartPromotion(b)
    BY <2>4, NothingMoves DEF StartPromotion
  <2>5. CASE FindCompany(b)
    BY <2>5, NothingMoves DEF FindCompany
  <2>6. CASE PromotionThrows(b)
    BY <2>6, NothingMoves DEF PromotionThrows
  <2>7. CASE SaveCompany(b)
    BY <2>7, SaveCompanyKeeps
  <2>8. CASE ClaimKey(b)
    BY <2>8, ClaimKeyKeeps
  <2>9. CASE RejectRow(b)
    BY <2>9, RejectRowKeeps
  <2>10. CASE AssignRow(b)
    BY <2>10, AssignRowKeeps
  <2>11. CASE ReviewClaims(b)
    BY <2>11, ReviewClaimsKeeps
  <2>12. CASE ReviewResolves(b)
    BY <2>12, ReviewResolvesKeeps
  <2>13. CASE ReviewFails(b)
    BY <2>13, ReviewFailsKeeps
  <2> QED
    BY <1>3, <2>1, <2>2, <2>3, <2>4, <2>5, <2>6, <2>7, <2>8, <2>9, <2>10, <2>11, <2>12, <2>13
       DEF Contacted
<1>4. CASE \E c \in Companies : Enrich(c) \/ EnrichmentFails(c)
  BY <1>4, EnrichKeeps, NothingMoves DEF EnrichmentFails
<1> QED
  BY <1>1, <1>2, <1>3, <1>4 DEF Next

\* A resolved row names the company that owns its key - its cui, or its nr_reg_com when it
\* has none - however many merges, claims, corrections and reviews came after, unless a
\* merge moved the key between the claims of the row's own review and its last write.
THEOREM ResolvedOwns == Spec => []ResolvedNamesOwner
<1>1. IInv /\ OwnInv /\ [Next]_vars => OwnInv'
  BY OwnStep, Parts
<1>2. OwnInv => ResolvedNamesOwner
  BY DEF OwnInv, RowInv, Mine, Now, ResolvedNamesOwner
<1> QED
  BY <1>1, <1>2, InitOwn, Invariant, PTL DEF Spec

-----------------------------------------------------------------------------
(* ImportBatch: type correctness.                                          *)

\* The upload leaves everything well typed.
LEMMA BatchInitType == BatchInit => BatchTypeOK
<1> SUFFICES ASSUME BatchInit PROVE BatchTypeOK
  OBVIOUS
<1>1. NoFlags \in Metadata
  BY DEF NoFlags, Metadata
<1>2. <<0, 0>> \in JobIds /\ 0 \in IngestKeys
  BY LimitsAssumption DEF JobIds, IngestKeys
<1>3. req \in [Requests -> RequestRecord]
  BY <1>1, <1>2 DEF BatchInit, RequestRecord, ReqSteps, Names, Scopes
<1> QED
  BY <1>1, <1>2, <1>3 DEF BatchInit, BatchTypeOK, BatchStatuses, RowStates, JobSteps

\* A request that moves to a well-typed record stays well typed.
LEMMA MoveRequestType ==
  ASSUME BatchTypeOK, NEW r \in Requests, NEW next \in RequestRecord, MoveRequest(r, next)
  PROVE  req' \in [Requests -> RequestRecord]
BY DEF BatchTypeOK, MoveRequest

\* A request that only takes a step stays well typed.
LEMMA StepType ==
  ASSUME BatchTypeOK, NEW r \in Requests, NEW next \in ReqSteps, Step(r, next)
  PROVE  req' \in [Requests -> RequestRecord]
<1> DEFINE moved == [req[r] EXCEPT !.step = next]
<1>1. req[r] \in RequestRecord
  BY DEF BatchTypeOK
<1>2. moved \in RequestRecord
  BY <1>1 DEF RequestRecord
<1> QED
  BY <1>2, MoveRequestType DEF Step

\* Accepting a request keeps the types.
LEMMA AcceptType ==
  ASSUME BatchTypeOK, NEW r \in Requests, NEW op \in Operations, NEW first \in ReqSteps,
         Accept(r, op, first)
  PROVE  BatchTypeOK'
<1> DEFINE moved == [req[r] EXCEPT !.step = first, !.name = op.name,
                                   !.scope = op.scope, !.seen = meta]
<1>1. req[r] \in RequestRecord /\ meta \in Metadata
  BY DEF BatchTypeOK
<1>2. op.name \in Names /\ op.scope \in Scopes
  BY OperationsAssumption
<1>3. moved \in RequestRecord
  BY <1>1, <1>2 DEF RequestRecord
<1>4. MoveRequest(r, moved)
  BY DEF Accept
<1> HIDE DEF moved
<1>5. req' \in [Requests -> RequestRecord]
  BY <1>3, <1>4, MoveRequestType
<1> QED
  BY <1>5 DEF BatchTypeOK, Accept, batch_vars, job_vars

\* Every step of a control request keeps the types.
LEMMA ControlRequestType ==
  ASSUME BatchTypeOK, NEW r \in Requests, Request(r)
  PROVE  BatchTypeOK'
<1> USE DEF batch_vars, job_vars
<1>0. req[r] \in RequestRecord /\ meta \in Metadata /\ retries \in Nat
  BY LimitsAssumption DEF BatchTypeOK, IngestKeys
<1>1. CASE AcceptFlag(r) \/ AcceptDelete(r) \/ AcceptCancel(r) \/ AcceptRetry(r)
  <2>1. {"flag_read", "mark_read", "cancel", "pend"} \subseteq ReqSteps
    BY DEF ReqSteps
  <2> QED
    BY <1>1, <2>1, AcceptType DEF AcceptFlag, AcceptDelete, AcceptCancel, AcceptRetry
<1>2. CASE ReadControl(r)
  <2> DEFINE flag == [req[r] EXCEPT !.step = "flag_write", !.copy = meta]
  <2> DEFINE mark == [req[r] EXCEPT !.step = "mark_write", !.copy = meta]
  <2>1. flag \in RequestRecord /\ mark \in RequestRecord
    BY <1>0 DEF RequestRecord, ReqSteps
  <2>2. MoveRequest(r, flag) \/ MoveRequest(r, mark)
    BY <1>2 DEF ReadControl
  <2> HIDE DEF flag, mark
  <2>3. req' \in [Requests -> RequestRecord]
    BY <2>1, <2>2, MoveRequestType
  <2> QED
    BY <1>2, <2>3 DEF ReadControl, BatchTypeOK
<1>3. CASE WriteFlag(r)
  <2>1. FlagOf(r) \in Scopes /\ FlagTo(r) \in BOOLEAN
    BY <1>0 DEF FlagOf, FlagTo, RequestRecord, Scopes
  <2>2. AfterFlag(r) \in ReqSteps
    BY DEF AfterFlag, ReqSteps
  <2>3. req' \in [Requests -> RequestRecord]
    BY <1>3, <2>2, StepType DEF WriteFlag
  <2>4. req[r].copy \in Metadata
    BY <1>0 DEF RequestRecord
  <2>5. [req[r].copy EXCEPT !.paused[FlagOf(r)] = FlagTo(r)] \in Metadata
    BY <2>1, <2>4 DEF Metadata
  <2>6. meta' \in Metadata
    BY <1>3, <2>5 DEF WriteFlag
  <2>7. asked' \in [Scopes -> BOOLEAN]
    BY <1>3, <2>1 DEF WriteFlag, BatchTypeOK
  <2> QED
    BY <1>3, <2>3, <2>6, <2>7 DEF WriteFlag, BatchTypeOK
<1>4. CASE WriteMark(r)
  <2>1. req' \in [Requests -> RequestRecord]
    BY <1>4, StepType DEF WriteMark, ReqSteps
  <2>2. meta' \in Metadata
    BY <1>0, <1>4 DEF WriteMark, RequestRecord, Metadata
  <2> QED
    BY <1>4, <2>1, <2>2 DEF WriteMark, BatchTypeOK
<1>5. CASE Requeue(r)
  <2>1. req' \in [Requests -> RequestRecord]
    BY <1>5, StepType DEF Requeue, ReqSteps
  <2>2. row' \in [IngestKeys -> RowStates]
    BY <1>5 DEF Requeue, BatchTypeOK, RowStates
  <2>3. used' \in [IngestKeys -> Nat]
    BY <1>5 DEF Requeue, BatchTypeOK
  <2>4. job' \in [JobIds -> JobSteps]
    BY <1>5 DEF Requeue, BatchTypeOK, JobSteps
  <2> QED
    BY <1>5, <2>1, <2>2, <2>3, <2>4 DEF Requeue, BatchTypeOK
<1>6. CASE CountActive(r)
  <2> DEFINE some == \E k \in IngestKeys : row[k] \in ActiveStates
  <2> DEFINE moved == [req[r] EXCEPT !.step = "unlink", !.active = some]
  <2>1. some \in BOOLEAN
    OBVIOUS
  <2>2. MoveRequest(r, moved)
    BY <1>6 DEF CountActive
  <2> HIDE DEF some
  <2>3. moved \in RequestRecord
    BY <1>0, <2>1 DEF RequestRecord, ReqSteps
  <2> HIDE DEF moved
  <2>4. req' \in [Requests -> RequestRecord]
    BY <2>2, <2>3, MoveRequestType
  <2> QED
    BY <1>6, <2>4 DEF CountActive, BatchTypeOK
<1>7. CASE Unlink(r)
  <2>1. req' \in [Requests -> RequestRecord]
    BY <1>7, StepType DEF Unlink, ReqSteps
  <2>2. file' \in BOOLEAN
    BY <1>7 DEF Unlink
  <2> QED
    BY <1>7, <2>1, <2>2 DEF Unlink, BatchTypeOK
<1>8. CASE WriteDelete(r)
  <2>1. req' \in [Requests -> RequestRecord]
    BY <1>8, StepType DEF WriteDelete, ReqSteps
  <2>2. req[r].seen \in Metadata /\ "batch" \in Scopes
    BY <1>0 DEF RequestRecord, Scopes
  <2>3. meta' \in Metadata
    BY <1>8, <2>2 DEF WriteDelete, Metadata
  <2> QED
    BY <1>8, <2>1, <2>3 DEF WriteDelete, BatchTypeOK, BatchStatuses
<1>9. CASE WriteCancel(r)
  <2>1. req' \in [Requests -> RequestRecord]
    BY <1>9, StepType DEF WriteCancel, ReqSteps
  <2> QED
    BY <1>9, <2>1 DEF WriteCancel, BatchTypeOK, BatchStatuses
<1>10. CASE WritePending(r)
  <2>1. req' \in [Requests -> RequestRecord]
    BY <1>10, StepType DEF WritePending, ReqSteps
  <2>2. req[r].seen \in Metadata
    BY <1>0 DEF RequestRecord
  <2> QED
    BY <1>10, <2>1, <2>2 DEF WritePending, BatchTypeOK, BatchStatuses
<1>11. CASE EnqueueRead(r)
  <2> DEFINE next == IF IsPaused THEN "enqueue_write_paused" ELSE "enqueue_write"
  <2> DEFINE moved == [req[r] EXCEPT !.step = next, !.key = retries + 1]
  <2>1. retries + 1 \in IngestKeys
    BY <1>0, <1>11, LimitsAssumption DEF EnqueueRead, IngestKeys
  <2>2. next \in ReqSteps
    BY DEF ReqSteps
  <2>3. MoveRequest(r, moved)
    BY <1>11 DEF EnqueueRead
  <2> HIDE DEF next
  <2>4. moved \in RequestRecord
    BY <1>0, <2>1, <2>2 DEF RequestRecord
  <2> HIDE DEF moved
  <2>5. req' \in [Requests -> RequestRecord]
    BY <2>3, <2>4, MoveRequestType
  <2> QED
    BY <1>11, <2>1, <2>5 DEF EnqueueRead, BatchTypeOK
<1>12. CASE EnqueueWrite(r)
  <2>1. req' \in [Requests -> RequestRecord]
    BY <1>12, StepType DEF EnqueueWrite, ReqSteps
  <2>2. row' \in [IngestKeys -> RowStates]
    BY <1>12 DEF EnqueueWrite, BatchTypeOK, RowStates
  <2> QED
    BY <1>12, <2>1, <2>2 DEF EnqueueWrite, BatchTypeOK
<1>13. CASE EnqueueAdd(r)
  <2>1. req' \in [Requests -> RequestRecord]
    BY <1>13, StepType DEF EnqueueAdd, ReqSteps
  <2>2. job' \in [JobIds -> JobSteps]
    BY <1>13 DEF EnqueueAdd, BatchTypeOK, JobSteps
  <2> QED
    BY <1>13, <2>1, <2>2 DEF EnqueueAdd, BatchTypeOK
<1> QED
  BY <1>1, <1>2, <1>3, <1>4, <1>5, <1>6, <1>7, <1>8, <1>9, <1>10, <1>11, <1>12, <1>13
     DEF Request

\* Every step of a parser job keeps the types.
LEMMA ParserType ==
  ASSUME BatchTypeOK, NEW j \in JobIds, ParserJob(j)
  PROVE  BatchTypeOK'
<1> USE DEF BatchTypeOK, batch_vars, job_vars, req_vars, Move, WriteRow
<1>1. j[1] \in IngestKeys
  BY DEF JobIds
<1>2. CASE Take(j)
  BY <1>2 DEF Take, JobSteps
<1>3. CASE Begin(j)
  BY <1>1, <1>3 DEF Begin, JobSteps, RowStates
<1>4. CASE Open(j)
  BY <1>4 DEF Open, JobSteps
<1>5. CASE Flush(j)
  BY <1>5 DEF Flush, JobSteps, BatchStatuses
<1>6. CASE ReportRead(j)
  BY <1>6 DEF ReportRead, JobSteps
<1>7. CASE ReportWrite(j)
  BY <1>1, <1>7 DEF ReportWrite, JobSteps, RowStates
<1>8. CASE StoreMapping(j)
  <2>1. meta' \in Metadata
    BY <1>8 DEF StoreMapping, Metadata
  <2>2. job' \in [JobIds -> JobSteps]
    BY <1>8 DEF StoreMapping, JobSteps
  <2> QED
    BY <1>8, <2>1, <2>2 DEF StoreMapping
<1>9. CASE CompleteBatch(j)
  BY <1>9 DEF CompleteBatch, JobSteps, BatchStatuses
<1>10. CASE Return(j)
  BY <1>1, <1>10 DEF Return, JobSteps, RowStates
<1>11. CASE Throw(j)
  BY <1>11 DEF Throw, JobSteps
<1>12. CASE FailBatch(j)
  BY <1>12 DEF FailBatch, JobSteps, BatchStatuses
<1>13. CASE FailRow(j)
  BY <1>1, <1>13 DEF FailRow, JobSteps, RowStates
<1>14. CASE Reject(j)
  BY <1>14 DEF Reject, JobSteps
<1> QED
  BY <1>2, <1>3, <1>4, <1>5, <1>6, <1>7, <1>8, <1>9, <1>10, <1>11, <1>12, <1>13, <1>14
     DEF ParserJob

\* The variables keep their types in every state of every behaviour.
THEOREM BatchTypeCorrect == BatchSpec => []BatchTypeOK
<1>1. BatchTypeOK /\ [BatchNext]_import_vars => BatchTypeOK'
  <2> SUFFICES ASSUME BatchTypeOK, [BatchNext]_import_vars PROVE BatchTypeOK'
    OBVIOUS
  <2>1. CASE UNCHANGED import_vars
    BY <2>1 DEF import_vars, BatchTypeOK
  <2> QED
    BY <2>1, ControlRequestType, ParserType DEF BatchNext
<1> QED
  BY <1>1, BatchInitType, PTL DEF BatchSpec

-----------------------------------------------------------------------------
(* Pause flags, with one request at a time.                                 *)


\* What a request has read is what was asked for until it writes it back; once
\* DELETE has paused the batch, what it read first differs in that flag only.
RequestHolds(q, flags) ==
  /\ q.step \in {"flag_write", "mark_write"} => q.copy.paused = flags
  /\ q.step \in {"mark_read", "mark_write", "count", "unlink", "delete"} => q.name = "delete"
  /\ q.step \in {"flag_read", "flag_write"} => q.name \in {"pause", "resume", "delete"}
  /\ q.step = "pend" => q.seen.paused = flags
  /\ q.name = "delete" /\ q.step \in {"mark_read", "mark_write", "flag_read", "flag_write"}
       => q.seen.paused = flags
  /\ q.step \in {"count", "unlink", "delete"}
       => [q.seen.paused EXCEPT !["batch"] = TRUE] = flags

FlagInv ==
  /\ BatchTypeOK
  /\ meta.paused = asked
  /\ \A r \in Requests : RequestHolds(req[r], asked)

\* A request that moves: only its own record has to be looked at again.
LEMMA MoveHolds ==
  ASSUME NEW r0, Requests = {r0}, BatchTypeOK, NEW next, MoveRequest(r0, next),
         RequestHolds(next, asked')
  PROVE  \A r \in Requests : RequestHolds(req'[r], asked')
<1>1. req'[r0] = next
  BY DEF BatchTypeOK, MoveRequest
<1> QED
  BY <1>1

\* A route that accepts a request has read the flags as they were asked for.
LEMMA AcceptKeepsFlags ==
  ASSUME NEW r0, Requests = {r0}, FlagInv, NEW op \in Operations, NEW first,
         Accept(r0, op, first),
         \/ first = "flag_read" /\ op.name \in {"pause", "resume"}
         \/ first = "mark_read" /\ op.name = "delete"
         \/ first = "cancel" \/ first = "pend"
  PROVE  meta'.paused = asked' /\ \A r \in Requests : RequestHolds(req'[r], asked')
<1> DEFINE moved == [req[r0] EXCEPT !.step = first, !.name = op.name,
                                    !.scope = op.scope, !.seen = meta]
<1>1. req[r0] \in RequestRecord
  BY DEF FlagInv, BatchTypeOK
<1>2. moved.step = first /\ moved.name = op.name /\ moved.seen = meta
  BY <1>1 DEF RequestRecord
<1>3. MoveRequest(r0, moved)
  BY DEF Accept
<1>4. meta' = meta /\ asked' = asked
  BY DEF Accept, batch_vars
<1> HIDE DEF moved
<1>5. RequestHolds(moved, asked')
  BY <1>2, <1>4 DEF RequestHolds, FlagInv
<1> QED
  BY <1>3, <1>4, <1>5, MoveHolds DEF FlagInv

\* A step of a request that touches neither the flags nor what it has read keeps
\* what holds of it, if the step it goes to asks for no more.
LEMMA StepKeepsFlags ==
  ASSUME NEW r0, Requests = {r0}, FlagInv, NEW next \in ReqSteps, Step(r0, next),
         next \in {"idle", "requeue", "enqueue", "enqueue_add"}
           \/ (next \in {"unlink", "delete"} /\ req[r0].step \in {"count", "unlink"}),
         asked' = asked
  PROVE  \A r \in Requests : RequestHolds(req'[r], asked')
<1> DEFINE moved == [req[r0] EXCEPT !.step = next]
<1>1. req[r0] \in RequestRecord /\ RequestHolds(req[r0], asked)
  BY DEF FlagInv, BatchTypeOK
<1>2. /\ moved.step = next /\ moved.name = req[r0].name
      /\ moved.seen = req[r0].seen /\ moved.copy = req[r0].copy
  BY <1>1 DEF RequestRecord
<1>3. MoveRequest(r0, moved)
  BY DEF Step
<1> HIDE DEF moved
<1>4. RequestHolds(moved, asked')
  BY <1>1, <1>2 DEF RequestHolds
<1> QED
  BY <1>3, <1>4, MoveHolds DEF FlagInv

\* Every step of the only request keeps the flags as they were asked for.
LEMMA RequestKeepsFlags ==
  ASSUME NEW r0, Requests = {r0}, FlagInv, Request(r0)
  PROVE  meta'.paused = asked' /\ \A r \in Requests : RequestHolds(req'[r], asked')
<1>0. /\ r0 \in Requests /\ req[r0] \in RequestRecord /\ meta \in Metadata
      /\ RequestHolds(req[r0], asked) /\ meta.paused = asked
      /\ asked \in [Scopes -> BOOLEAN]
  BY DEF FlagInv, BatchTypeOK
<1>1. CASE AcceptFlag(r0) \/ AcceptDelete(r0) \/ AcceptCancel(r0) \/ AcceptRetry(r0)
  BY <1>1, AcceptKeepsFlags DEF AcceptFlag, AcceptDelete, AcceptCancel, AcceptRetry
<1>2. CASE ReadControl(r0)
  <2> DEFINE flag == [req[r0] EXCEPT !.step = "flag_write", !.copy = meta]
  <2> DEFINE mark == [req[r0] EXCEPT !.step = "mark_write", !.copy = meta]
  <2>1. /\ flag.step = "flag_write" /\ flag.copy = meta
        /\ flag.name = req[r0].name /\ flag.seen = req[r0].seen
    BY <1>0 DEF RequestRecord
  <2>2. /\ mark.step = "mark_write" /\ mark.copy = meta
        /\ mark.name = req[r0].name /\ mark.seen = req[r0].seen
    BY <1>0 DEF RequestRecord
  <2>3. meta' = meta /\ asked' = asked
    BY <1>2 DEF ReadControl, batch_vars
  <2>4. \/ req[r0].step = "flag_read" /\ MoveRequest(r0, flag)
        \/ req[r0].step = "mark_read" /\ MoveRequest(r0, mark)
    BY <1>2 DEF ReadControl, At
  <2> HIDE DEF flag, mark
  <2>5. CASE req[r0].step = "flag_read" /\ MoveRequest(r0, flag)
    <3>1. RequestHolds(flag, asked')
      BY <1>0, <2>1, <2>3, <2>5 DEF RequestHolds
    <3> QED
      BY <1>0, <2>3, <2>5, <3>1, MoveHolds DEF FlagInv
  <2>6. CASE req[r0].step = "mark_read" /\ MoveRequest(r0, mark)
    <3>1. RequestHolds(mark, asked')
      BY <1>0, <2>2, <2>3, <2>6 DEF RequestHolds
    <3> QED
      BY <1>0, <2>3, <2>6, <3>1, MoveHolds DEF FlagInv
  <2> QED
    BY <2>4, <2>5, <2>6
<1>3. CASE WriteFlag(r0)
  <2> DEFINE copy == req[r0].copy
  <2> DEFINE moved == [req[r0] EXCEPT !.step = AfterFlag(r0)]
  <2>1. copy \in Metadata /\ copy.paused = asked /\ req[r0].step = "flag_write"
    BY <1>0, <1>3 DEF WriteFlag, At, RequestRecord, RequestHolds
  <2>2. meta'.paused = [asked EXCEPT ![FlagOf(r0)] = FlagTo(r0)]
    BY <1>3, <2>1 DEF WriteFlag, Metadata
  <2>3. asked' = [asked EXCEPT ![FlagOf(r0)] = FlagTo(r0)]
    BY <1>3 DEF WriteFlag
  <2>4. /\ moved.step = AfterFlag(r0) /\ moved.name = req[r0].name
        /\ moved.seen = req[r0].seen
    BY <1>0 DEF RequestRecord
  <2>5. MoveRequest(r0, moved)
    BY <1>3 DEF WriteFlag, Step
  <2>6. req[r0].name = "delete" => asked' = [asked EXCEPT !["batch"] = TRUE]
    BY <2>3 DEF FlagOf, FlagTo
  <2>7. req[r0].name \in Names
    BY <1>0 DEF RequestRecord
  <2> HIDE DEF moved
  <2>8. CASE req[r0].name = "delete"
    <3>1. req[r0].seen.paused = asked
      BY <1>0, <2>1, <2>8 DEF RequestHolds
    <3>2. AfterFlag(r0) = "count"
      BY <2>8 DEF AfterFlag
    <3>3. RequestHolds(moved, asked')
      BY <2>4, <2>6, <2>8, <3>1, <3>2 DEF RequestHolds
    <3> QED
      BY <2>2, <2>3, <2>5, <3>3, MoveHolds DEF FlagInv
  <2>9. CASE req[r0].name \in {"pause", "resume"}
    <3>1. AfterFlag(r0) \in {"idle", "requeue"}
      BY <2>9 DEF AfterFlag
    <3>2. RequestHolds(moved, asked')
      BY <2>4, <2>9, <3>1 DEF RequestHolds
    <3> QED
      BY <2>2, <2>3, <2>5, <3>2, MoveHolds DEF FlagInv
  <2> QED
    BY <1>0, <2>1, <2>8, <2>9 DEF RequestHolds
<1>4. CASE WriteMark(r0)
  <2> DEFINE moved == [req[r0] EXCEPT !.step = "flag_read"]
  <2>1. /\ req[r0].step = "mark_write" /\ req[r0].name = "delete"
        /\ req[r0].copy \in Metadata /\ req[r0].copy.paused = asked
        /\ req[r0].seen.paused = asked
    BY <1>0, <1>4 DEF WriteMark, At, RequestRecord, RequestHolds
  <2>2. meta'.paused = asked /\ asked' = asked
    BY <1>4, <2>1 DEF WriteMark, Metadata
  <2>3. /\ moved.step = "flag_read" /\ moved.name = req[r0].name
        /\ moved.seen = req[r0].seen
    BY <1>0 DEF RequestRecord
  <2>4. MoveRequest(r0, moved)
    BY <1>4 DEF WriteMark, Step
  <2> HIDE DEF moved
  <2>5. RequestHolds(moved, asked')
    BY <2>1, <2>2, <2>3 DEF RequestHolds
  <2> QED
    BY <2>2, <2>4, <2>5, MoveHolds DEF FlagInv
<1>5. CASE Requeue(r0)
  BY <1>0, <1>5, StepKeepsFlags DEF Requeue, ReqSteps, batch_vars
<1>6. CASE CountActive(r0)
  <2> DEFINE some == \E k \in IngestKeys : row[k] \in ActiveStates
  <2> DEFINE moved == [req[r0] EXCEPT !.step = "unlink", !.active = some]
  <2>1. MoveRequest(r0, moved)
    BY <1>6 DEF CountActive
  <2> HIDE DEF some
  <2>2. /\ moved.step = "unlink" /\ moved.name = req[r0].name
        /\ moved.seen = req[r0].seen
    BY <1>0 DEF RequestRecord
  <2>3. req[r0].step = "count" /\ meta' = meta /\ asked' = asked
    BY <1>6 DEF CountActive, At, batch_vars
  <2> HIDE DEF moved
  <2>4. RequestHolds(moved, asked')
    BY <1>0, <2>2, <2>3 DEF RequestHolds
  <2> QED
    BY <1>0, <2>1, <2>3, <2>4, MoveHolds DEF FlagInv
<1>7. CASE Unlink(r0)
  BY <1>0, <1>7, StepKeepsFlags DEF Unlink, At, ReqSteps
<1>8. CASE WriteDelete(r0)
  <2>1. /\ req[r0].step = "delete" /\ req[r0].seen \in Metadata
        /\ [req[r0].seen.paused EXCEPT !["batch"] = TRUE] = asked
    BY <1>0, <1>8 DEF WriteDelete, At, RequestRecord, RequestHolds
  <2>2. meta'.paused = [req[r0].seen.paused EXCEPT !["batch"] = TRUE]
    BY <1>8, <2>1 DEF WriteDelete, Metadata
  <2>3. asked' = asked
    BY <1>8 DEF WriteDelete
  <2> QED
    BY <1>8, <2>1, <2>2, <2>3, StepKeepsFlags DEF WriteDelete, ReqSteps
<1>9. CASE WriteCancel(r0)
  BY <1>0, <1>9, StepKeepsFlags DEF WriteCancel, ReqSteps
<1>10. CASE WritePending(r0)
  <2>1. req[r0].seen.paused = asked
    BY <1>0, <1>10 DEF WritePending, At, RequestHolds
  <2>2. meta'.paused = asked'
    BY <1>10, <2>1 DEF WritePending
  <2> QED
    BY <1>10, <2>2, StepKeepsFlags DEF WritePending, ReqSteps
<1>11. CASE EnqueueRead(r0)
  <2> DEFINE next == IF IsPaused THEN "enqueue_write_paused" ELSE "enqueue_write"
  <2> DEFINE moved == [req[r0] EXCEPT !.step = next, !.key = retries + 1]
  <2>1. MoveRequest(r0, moved)
    BY <1>11 DEF EnqueueRead
  <2>2. next \in {"enqueue_write_paused", "enqueue_write"}
    OBVIOUS
  <2> HIDE DEF next
  <2>3. moved.step = next
    BY <1>0 DEF RequestRecord
  <2>4. meta' = meta /\ asked' = asked
    BY <1>11 DEF EnqueueRead, batch_vars
  <2> HIDE DEF moved
  <2>5. RequestHolds(moved, asked')
    BY <2>2, <2>3 DEF RequestHolds
  <2> QED
    BY <1>0, <2>1, <2>4, <2>5, MoveHolds DEF FlagInv
<1>12. CASE EnqueueWrite(r0)
  BY <1>0, <1>12, StepKeepsFlags DEF EnqueueWrite, ReqSteps, batch_vars
<1>13. CASE EnqueueAdd(r0)
  BY <1>0, <1>13, StepKeepsFlags DEF EnqueueAdd, ReqSteps, batch_vars
<1> QED
  BY <1>1, <1>2, <1>3, <1>4, <1>5, <1>6, <1>7, <1>8, <1>9, <1>10, <1>11, <1>12, <1>13
     DEF Request

\* The parser writes single keys of the metadata and none of the flags.
LEMMA ParserKeepsFlags ==
  ASSUME BatchTypeOK, NEW j \in JobIds, ParserJob(j)
  PROVE  meta'.paused = meta.paused /\ asked' = asked /\ req' = req
<1>1. CASE StoreMapping(j)
  BY <1>1 DEF StoreMapping, BatchTypeOK, Metadata, req_vars
<1> QED
  BY <1>1 DEF ParserJob, Take, Begin, Open, Flush, ReportRead, ReportWrite, CompleteBatch,
              Return, Throw, FailBatch, FailRow, Reject, batch_vars, req_vars

\* With one request at a time, every flag is what the last request about it asked
\* for, however many requests there are and whatever the parser writes meanwhile
\* (updateBatchExecutionControl, DELETE and retry of imports-bronze.ts).
THEOREM FlagsKept ==
  ASSUME NEW r0, Requests = {r0}
  PROVE  BatchSpec => []FlagsAsAsked
<1>1. BatchInit => FlagInv
  <2> SUFFICES ASSUME BatchInit PROVE FlagInv
    OBVIOUS
  <2>1. meta.paused = asked
    BY DEF BatchInit, NoFlags
  <2>2. \A r \in Requests : req[r].step = "idle" /\ req[r].name = "pause"
    BY DEF BatchInit
  <2> QED
    BY <2>1, <2>2, BatchInitType DEF FlagInv, RequestHolds
<1>2. FlagInv /\ [BatchNext]_import_vars => FlagInv'
  <2> SUFFICES ASSUME FlagInv, [BatchNext]_import_vars PROVE FlagInv'
    OBVIOUS
  <2>1. BatchTypeOK'
    <3>1. CASE UNCHANGED import_vars
      BY <3>1 DEF import_vars, FlagInv, BatchTypeOK
    <3> QED
      BY <3>1, ControlRequestType, ParserType DEF BatchNext, FlagInv
  <2>2. meta'.paused = asked' /\ \A r \in Requests : RequestHolds(req'[r], asked')
    <3>1. CASE UNCHANGED import_vars
      BY <3>1 DEF import_vars, FlagInv
    <3>2. CASE \E r \in Requests : Request(r)
      BY <3>2, RequestKeepsFlags
    <3>3. CASE \E j \in JobIds : ParserJob(j)
      BY <3>3, ParserKeepsFlags DEF FlagInv
    <3> QED
      BY <3>1, <3>2, <3>3 DEF BatchNext
  <2> QED
    BY <2>1, <2>2 DEF FlagInv
<1>3. FlagInv => FlagsAsAsked
  BY DEF FlagInv, FlagsAsAsked
<1> QED
  BY <1>1, <1>2, <1>3, PTL DEF BatchSpec

-----------------------------------------------------------------------------
(* Deleted batches, with one request at a time.                             *)

PausedIfHidden(m) == m.hidden => m.paused["batch"] /\ m.deleteRequested

\* A route that changes flags or marks works on a batch that nobody hides
\* meanwhile; the retry route holds a copy that is as good as the column.
DeletionHolds(q, m) ==
  /\ q.step \in {"flag_read", "flag_write", "mark_read", "mark_write"} => ~m.hidden
  /\ q.step \in {"flag_write", "mark_write"} => ~q.copy.hidden
  /\ q.step = "pend" => PausedIfHidden(q.seen)

DeletionInv ==
  /\ BatchTypeOK
  /\ PausedIfHidden(meta)
  /\ \A r \in Requests : DeletionHolds(req[r], meta)

\* A request that moves: only its own record has to be looked at again.
LEMMA MoveDeletion ==
  ASSUME NEW r0, Requests = {r0}, BatchTypeOK, NEW next, MoveRequest(r0, next),
         DeletionHolds(next, meta')
  PROVE  \A r \in Requests : DeletionHolds(req'[r], meta')
<1>1. req'[r0] = next
  BY DEF BatchTypeOK, MoveRequest
<1> QED
  BY <1>1

\* A route that accepts a request has read the column as it is.
LEMMA AcceptKeepsDeletion ==
  ASSUME NEW r0, Requests = {r0}, DeletionInv, NEW op \in Operations, NEW first,
         Accept(r0, op, first),
         first \in {"flag_read", "mark_read", "cancel", "pend"},
         first \in {"flag_read", "mark_read"} => ~meta.hidden
  PROVE  PausedIfHidden(meta') /\ \A r \in Requests : DeletionHolds(req'[r], meta')
<1> DEFINE moved == [req[r0] EXCEPT !.step = first, !.name = op.name,
                                    !.scope = op.scope, !.seen = meta]
<1>1. req[r0] \in RequestRecord /\ PausedIfHidden(meta)
  BY DEF DeletionInv, BatchTypeOK
<1>2. moved.step = first /\ moved.seen = meta
  BY <1>1 DEF RequestRecord
<1>3. MoveRequest(r0, moved) /\ meta' = meta
  BY DEF Accept, batch_vars
<1> HIDE DEF moved
<1>4. DeletionHolds(moved, meta')
  BY <1>1, <1>2, <1>3 DEF DeletionHolds
<1> QED
  BY <1>1, <1>3, <1>4, MoveDeletion DEF DeletionInv, PausedIfHidden

\* A step of a request that takes it to where nothing is asked of its copies.
LEMMA StepKeepsDeletion ==
  ASSUME NEW r0, Requests = {r0}, DeletionInv, NEW next, Step(r0, next),
         \/ next \notin {"flag_read", "flag_write", "mark_read", "mark_write", "pend"}
         \/ next = "flag_read" /\ ~meta'.hidden
  PROVE  \A r \in Requests : DeletionHolds(req'[r], meta')
<1> DEFINE moved == [req[r0] EXCEPT !.step = next]
<1>1. req[r0] \in RequestRecord
  BY DEF DeletionInv, BatchTypeOK
<1>2. moved.step = next
  BY <1>1 DEF RequestRecord
<1>3. MoveRequest(r0, moved)
  BY DEF Step
<1> HIDE DEF moved
<1>4. DeletionHolds(moved, meta')
  BY <1>2 DEF DeletionHolds
<1> QED
  BY <1>3, <1>4, MoveDeletion DEF DeletionInv

\* Every step of the only request keeps a hidden batch paused.
LEMMA RequestKeepsDeletion ==
  ASSUME NEW r0, Requests = {r0}, DeletionInv, Request(r0)
  PROVE  PausedIfHidden(meta') /\ \A r \in Requests : DeletionHolds(req'[r], meta')
<1>0. /\ r0 \in Requests /\ req[r0] \in RequestRecord /\ meta \in Metadata
      /\ DeletionHolds(req[r0], meta) /\ PausedIfHidden(meta) /\ "batch" \in Scopes
      /\ req[r0].copy \in Metadata /\ req[r0].seen \in Metadata
  BY DEF DeletionInv, BatchTypeOK, RequestRecord, Scopes
<1>1. CASE AcceptFlag(r0) \/ AcceptDelete(r0) \/ AcceptCancel(r0) \/ AcceptRetry(r0)
  <2>1. PICK op \in Operations, first \in {"flag_read", "mark_read", "cancel", "pend"} :
          /\ Accept(r0, op, first)
          /\ first \in {"flag_read", "mark_read"} => ~meta.hidden
    BY <1>1, Zenon DEF AcceptFlag, AcceptDelete, AcceptCancel, AcceptRetry
  <2> QED
    BY <2>1, AcceptKeepsDeletion
<1>2. CASE ReadControl(r0)
  <2> DEFINE flag == [req[r0] EXCEPT !.step = "flag_write", !.copy = meta]
  <2> DEFINE mark == [req[r0] EXCEPT !.step = "mark_write", !.copy = meta]
  <2>1. /\ flag.step = "flag_write" /\ flag.copy = meta
        /\ mark.step = "mark_write" /\ mark.copy = meta
    BY <1>0 DEF RequestRecord
  <2>2. meta' = meta /\ ~meta.hidden /\ (MoveRequest(r0, flag) \/ MoveRequest(r0, mark))
    BY <1>0, <1>2 DEF ReadControl, batch_vars, At, DeletionHolds
  <2> HIDE DEF flag, mark
  <2>3. DeletionHolds(flag, meta') /\ DeletionHolds(mark, meta')
    BY <2>1, <2>2 DEF DeletionHolds
  <2> QED
    BY <1>0, <2>2, <2>3, MoveDeletion DEF DeletionInv, PausedIfHidden
<1>3. CASE WriteFlag(r0) \/ WriteMark(r0)
  <2>1. ~req[r0].copy.hidden
    BY <1>0, <1>3 DEF WriteFlag, WriteMark, At, DeletionHolds
  <2>2. ~meta'.hidden
    BY <1>0, <1>3, <2>1 DEF WriteFlag, WriteMark, Metadata
  <2>3. Step(r0, AfterFlag(r0)) \/ Step(r0, "flag_read")
    BY <1>3 DEF WriteFlag, WriteMark
  <2>4. AfterFlag(r0) \in {"idle", "requeue", "count"}
    BY DEF AfterFlag
  <2>5. \A r \in Requests : DeletionHolds(req'[r], meta')
    BY <2>2, <2>3, <2>4, StepKeepsDeletion
  <2> QED
    BY <2>2, <2>5 DEF PausedIfHidden
<1>4. CASE WriteDelete(r0)
  <2>1. PausedIfHidden(meta')
    BY <1>0, <1>4 DEF WriteDelete, PausedIfHidden, Metadata
  <2>2. Step(r0, "idle")
    BY <1>4 DEF WriteDelete
  <2> QED
    BY <2>1, <2>2, StepKeepsDeletion
<1>5. CASE WritePending(r0)
  <2>1. PausedIfHidden(meta') /\ Step(r0, "enqueue")
    BY <1>0, <1>5 DEF WritePending, At, DeletionHolds, PausedIfHidden
  <2> QED
    BY <2>1, StepKeepsDeletion
<1>6. CASE Requeue(r0) \/ Unlink(r0) \/ WriteCancel(r0) \/ EnqueueWrite(r0) \/ EnqueueAdd(r0)
  <2>1. meta' = meta /\ \E next \in {"idle", "delete", "enqueue_add"} : Step(r0, next)
    BY <1>6 DEF Requeue, Unlink, WriteCancel, EnqueueWrite, EnqueueAdd, batch_vars
  <2> QED
    BY <1>0, <2>1, StepKeepsDeletion DEF PausedIfHidden
<1>7. CASE CountActive(r0)
  <2> DEFINE moved == [req[r0] EXCEPT !.step = "unlink",
                         !.active = \E k \in IngestKeys : row[k] \in ActiveStates]
  <2>1. moved.step = "unlink" /\ meta' = meta /\ MoveRequest(r0, moved)
    BY <1>0, <1>7 DEF CountActive, RequestRecord, batch_vars
  <2> HIDE DEF moved
  <2>2. DeletionHolds(moved, meta')
    BY <2>1 DEF DeletionHolds
  <2> QED
    BY <1>0, <2>1, <2>2, MoveDeletion DEF DeletionInv, PausedIfHidden
<1>8. CASE EnqueueRead(r0)
  <2> DEFINE moved == [req[r0] EXCEPT
        !.step = IF IsPaused THEN "enqueue_write_paused" ELSE "enqueue_write",
        !.key  = retries + 1]
  <2>1. /\ moved.step \in {"enqueue_write_paused", "enqueue_write"}
        /\ meta' = meta /\ MoveRequest(r0, moved)
    BY <1>0, <1>8 DEF EnqueueRead, RequestRecord, batch_vars
  <2> HIDE DEF moved
  <2>2. DeletionHolds(moved, meta')
    BY <2>1 DEF DeletionHolds
  <2> QED
    BY <1>0, <2>1, <2>2, MoveDeletion DEF DeletionInv, PausedIfHidden
<1> QED
  BY <1>1, <1>2, <1>3, <1>4, <1>5, <1>6, <1>7, <1>8 DEF Request

\* The parser hides no batch and resumes none.
LEMMA ParserKeepsDeletion ==
  ASSUME DeletionInv, NEW j \in JobIds, ParserJob(j)
  PROVE  PausedIfHidden(meta') /\ \A r \in Requests : DeletionHolds(req'[r], meta')
<1>1. /\ meta'.paused = meta.paused /\ meta'.hidden = meta.hidden
      /\ meta'.deleteRequested = meta.deleteRequested /\ req' = req
  <2>1. CASE StoreMapping(j)
    BY <2>1 DEF StoreMapping, DeletionInv, BatchTypeOK, Metadata, req_vars
  <2> QED
    BY <2>1 DEF ParserJob, Take, Begin, Open, Flush, ReportRead, ReportWrite,
                CompleteBatch, Return, Throw, FailBatch, FailRow, Reject, batch_vars, req_vars
<1> QED
  BY <1>1 DEF DeletionInv, DeletionHolds, PausedIfHidden

\* With one request at a time, a deleted batch stays paused, whatever is retried,
\* cancelled or parsed afterwards (DELETE of imports-bronze.ts, whose last write
\* carries metadata older than its own pause).
THEOREM DeletedPaused ==
  ASSUME NEW r0, Requests = {r0}
  PROVE  BatchSpec => []DeletedIsPaused
<1>1. BatchInit => DeletionInv
  <2> SUFFICES ASSUME BatchInit PROVE DeletionInv
    OBVIOUS
  <2>1. ~meta.hidden /\ \A r \in Requests : req[r].step = "idle"
    BY DEF BatchInit, NoFlags
  <2> QED
    BY <2>1, BatchInitType DEF DeletionInv, DeletionHolds, PausedIfHidden
<1>2. DeletionInv /\ [BatchNext]_import_vars => DeletionInv'
  <2> SUFFICES ASSUME DeletionInv, [BatchNext]_import_vars PROVE DeletionInv'
    OBVIOUS
  <2>1. BatchTypeOK'
    <3>1. CASE UNCHANGED import_vars
      BY <3>1 DEF import_vars, DeletionInv, BatchTypeOK
    <3> QED
      BY <3>1, ControlRequestType, ParserType DEF BatchNext, DeletionInv
  <2>2. PausedIfHidden(meta') /\ \A r \in Requests : DeletionHolds(req'[r], meta')
    <3>1. CASE UNCHANGED import_vars
      BY <3>1 DEF import_vars, DeletionInv, PausedIfHidden
    <3>2. CASE \E r \in Requests : Request(r)
      BY <3>2, RequestKeepsDeletion
    <3>3. CASE \E j \in JobIds : ParserJob(j)
      BY <3>3, ParserKeepsDeletion
    <3> QED
      BY <3>1, <3>2, <3>3 DEF BatchNext
  <2> QED
    BY <2>1, <2>2 DEF DeletionInv
<1>3. DeletionInv => DeletedIsPaused
  BY DEF DeletionInv, DeletedIsPaused, PausedIfHidden
<1> QED
  BY <1>1, <1>2, <1>3, PTL DEF BatchSpec
===============================================================================
