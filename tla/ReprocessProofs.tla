---------------------------- MODULE ReprocessProofs ----------------------------
(***************************************************************************)
(* Proofs about Reprocess: type correctness, that a row out of step with   *)
(* its identifiers had a broken try, and that a full run serves every      *)
(* contact over all its attempts.                                          *)
(***************************************************************************)
EXTENDS Reprocess, FiniteSetTheorems, WellFoundedInduction, TLAPS

-----------------------------------------------------------------------------
(* The inductive invariant *)

Now == run.at \in {"backfill", "resolve", "ask", "clear"}

Run == [kind : Kinds \cup {Nil}, at : Steps, phase : {"resolve", "promote"}, from : Cursor,
        cursor : Cursor, promo : Cursor, todo : SUBSET Contacts,
        seen : UNION {[S -> Row] : S \in SUBSET Contacts}, try : 1..ContactTries]

\* What a run remembers, whichever it is.
RunOK ==
    /\ run \in Run
    /\ run.at \in {"promote", "note", "finish", "switch"} => run.phase = "promote"
    /\ run.at \in {"page", "backfill", "resolve", "ask", "clear", "save"} => run.phase = "resolve"
    /\ run.at \in {"backfill", "resolve", "ask", "clear", "note"} => run.todo # {}
    /\ Now => run.todo \subseteq DOMAIN run.seen

\* A kind of job is active while its run is, and has attempts left while it may run.
JobOK ==
    /\ run.kind # Nil => job[run.kind].state = "active"
    /\ \A k \in Kinds :
         /\ job[k].state = "active" => run.kind = k
         /\ job[k].state \in {"waiting", "active"} => job[k].tries < Attempts[k]

Request == [kind : {Nil, "rerun", "resume", "errors"}, at : {"read", "add", "write"},
            meta : Checkpoint \cup {Nil}, added : BOOLEAN]

RequestOK ==
    /\ request \in Request
    /\ request.kind = "resume" => request.meta \in Checkpoint
    /\ request.at = "add" => ~request.added

Base == TypeOK /\ RunOK /\ JobOK /\ RequestOK

\* The rows that a page settles were resolved by what they hold now, or a try of them broke.
SeenOK ==
    /\ Now =>
         \A c \in run.todo : Settled(c) =>
           row[c].status = "resolved" /\ (row[c].used = "new" \/ c \in past.broken)
    /\ run.at \in {"resolve", "ask", "clear"} => row[Current].extracted = "new"
    /\ run.at \in {"resolve", "ask"} => ~Settled(Current)

-----------------------------------------------------------------------------
(* What a run reads from a cursor on *)

Closed(S) ==
    \A k \in S : Page(Contacts, k) # {} => Final(Page(Contacts, k)) \in S

\* The cursors a run over all contacts comes to from cursor k
Ahead(k) == {j \in Cursor : \A S \in SUBSET Cursor : k \in S /\ Closed(S) => j \in S}

\* The contacts it reads from there
Due(k) == {c \in Contacts : \E j \in Ahead(k) : c \in Page(Contacts, j)}

\* It comes to an empty page
Ends(k) == \E j \in Ahead(k) : Page(Contacts, j) = {}

\* The full run was done with the contact and left it to an operator if it must.
Served(c) ==
    /\ c \in past.judged
    /\ row[c].status = "conflict" => c \in tasks \/ row[c].failure = "failed"

AllServed == \A c \in Contacts : Served(c)

\* A run that goes on from k and ends has served all.
Covered(k) == Ends(k) => \A c \in Contacts \ Due(k) : Served(c)

\* What is resolved and not after the cursor has a promotion job.
Promoted(k) ==
    \A c \in Contacts : row[c].status = "resolved" /\ ~After(c, k) => c \in past.queued

AllPromoted == \A c \in Contacts : row[c].status = "resolved" => c \in past.queued

-----------------------------------------------------------------------------

\* Nothing has undone the full run.
Sound == ~past.crossed /\ ~past.shared

\* A job that began before the reset is crossed.
HalfwayOK ==
    Halfway /\ ~past.crossed => job["full"].state = "waiting" /\ past.judged = {}

\* A run over errors that has written nothing since the full run was asked for.
ErrorsOK ==
    run.kind = "errors" /\ run.at # "start" /\ ~past.shared =>
      job["full"].state = "waiting" /\ past.judged = {}

MetaOK ==
    /\ meta.cursor \in Ahead(Nil)
    /\ meta.phase = "resolve" => Covered(meta.cursor)
    /\ meta.phase = "promote" => AllServed /\ Promoted(meta.promo)

DoneOK == job["full"].state = "done" => AllServed /\ AllPromoted

\* The rest of the page that a run is at.
PageOK ==
    LET last == Final(run.todo)
    IN  /\ last \in Ahead(run.from) /\ last \in Ahead(meta.cursor)
        /\ run.todo \subseteq Due(run.from) /\ run.todo \subseteq Due(meta.cursor)
        /\ Ends(last) => \A c \in Contacts \ (run.todo \cup Due(last)) : Served(c)
        /\ run.at = "clear" /\ row[Current].status = "conflict" => Current \in tasks

FullOK ==
    run.kind = "full" =>
      /\ run.from \in Ahead(Nil)
      /\ run.phase = "resolve" => Covered(run.from)
      /\ run.at \in {"start", "switch", "promote", "note", "finish", "end"} => run.cursor = run.from
      /\ run.at = "start" /\ run.phase = "promote" => AllServed /\ Promoted(run.promo)
      /\ run.at \in {"page", "backfill", "resolve", "ask", "clear", "save"} => meta.phase = "resolve"
      /\ run.at \in {"page", "save"} =>
           /\ run.cursor \in Ahead(run.from) /\ run.cursor \in Ahead(meta.cursor)
           /\ Covered(run.cursor)
      /\ Now => PageOK
      /\ run.at \in {"switch", "promote", "note", "finish", "end"} => AllServed
      /\ run.at = "switch" => run.promo = Nil
      /\ run.at \in {"promote", "note"} => Promoted(run.promo)
      /\ run.at = "note" => Promoted(Final(run.todo))
      /\ run.at \in {"finish", "end"} => AllPromoted

ServesOK == Sound /\ ~Halfway => MetaOK /\ DoneOK /\ FullOK
-----------------------------------------------------------------------------
(* The order of contacts *)

CreatedOK == created \in [Contacts -> [ms : Nat, us : Nat]]

\* Before is a strict total order, and the cursor of a contact passes over no later one.
LEMMA Order ==
    ASSUME CreatedOK
    PROVE  /\ \A c, d \in Contacts : Before(c, d) => ~Before(d, c)
           /\ \A c, d, e \in Contacts : Before(c, d) /\ Before(d, e) => Before(c, e)
           /\ \A c, d \in Contacts : c # d => Before(c, d) \/ Before(d, c)
           /\ \A c, d \in Contacts : Before(c, d) => After(d, c)
           /\ \A c, d \in Contacts : ~After(c, d) => c = d \/ Before(c, d)
           /\ \A c \in Contacts : After(c, Nil)
<1>1. \A c \in Contacts : /\ created[c].ms \in Nat /\ created[c].us \in Nat /\ Rank[c] \in Nat
                          /\ created[c] \in [ms : Nat, us : Nat] /\ c # Nil
  BY ConstantsAssumption DEF CreatedOK
<1>2. \A c, d \in Contacts :
        created[c] = created[d] <=> created[c].ms = created[d].ms /\ created[c].us = created[d].us
  BY <1>1
<1>3. \A c, d \in Contacts : Rank[c] = Rank[d] => c = d
  BY ConstantsAssumption
<1> QED
  BY <1>1, <1>2, <1>3 DEF Before, After

\* A nonempty set of numbers has a least one.
LEMMA LeastNat ==
    ASSUME NEW T \in SUBSET Nat, T # {}
    PROVE  \E t \in T : \A u \in T : t <= u
<1> DEFINE R == OpToRel(<, Nat)
<1>1. IsWellFoundedOn(R, Nat)
  BY NatLessThanWellFounded
<1>2. PICK x \in T : \A y \in T : ~ (<<y, x>> \in R)
  BY <1>1, WFMin
<1>3. \A a \in Nat, b \in Nat : a < b => <<a, b>> \in R
  BY DEF OpToRel
<1> HIDE DEF R
<1>4. ASSUME NEW u \in T PROVE x <= u
  <2>1. u \in Nat /\ x \in Nat /\ ~ (u < x)
    BY <1>2, <1>3
  <2> QED
    BY <2>1
<1> QED
  BY <1>4

\* A finite set has an element with none before it, in any strict partial order.
LEMMA Least ==
    ASSUME NEW S, IsFiniteSet(S), S # {}, NEW L,
           \A c \in S : <<c, c>> \notin L,
           \A c, d, e \in S : <<c, d>> \in L /\ <<d, e>> \in L => <<c, e>> \in L
    PROVE  \E c \in S : \A d \in S : <<d, c>> \notin L
<1> DEFINE below(c) == {d \in S : <<d, c>> \in L}
           T == {Cardinality(below(c)) : c \in S}
<1>1. \A c \in S : IsFiniteSet(below(c)) /\ Cardinality(below(c)) \in Nat
  BY FS_Subset, FS_CardinalityType
<1>2. T \in SUBSET Nat /\ T # {}
  <2>1. PICK e \in S : TRUE
    OBVIOUS
  <2>2. Cardinality(below(e)) \in T
    BY <2>1
  <2>3. ASSUME NEW t \in T PROVE t \in Nat
    <3>1. PICK c \in S : t = Cardinality(below(c))
      OBVIOUS
    <3> QED
      BY <3>1, <1>1
  <2> HIDE DEF T
  <2> QED
    BY <2>2, <2>3
<1>3. PICK t \in T : \A u \in T : t <= u
  BY <1>2, LeastNat
<1>4. PICK c \in S : t = Cardinality(below(c))
  BY <1>3
<1>5. ASSUME NEW d \in S, <<d, c>> \in L PROVE FALSE
  <2>1. below(d) \in SUBSET below(c)
    BY <1>5
  <2>2. d \in below(c) /\ d \notin below(d)
    BY <1>5
  <2>3. Cardinality(below(d)) <= Cardinality(below(c)) /\ Cardinality(below(c)) # Cardinality(below(d))
    BY <2>1, <2>2, <1>1, FS_Subset
  <2>4. Cardinality(below(d)) \in T
    OBVIOUS
  <2> HIDE DEF below, T
  <2> QED
    BY <2>3, <2>4, <1>1, <1>3, <1>4
<1> QED
  BY <1>5

\* First and Final find the first and the last contact of a set.
LEMMA Ordered ==
    ASSUME CreatedOK, NEW S \in SUBSET Contacts, S # {}
    PROVE  /\ First(S) \in S /\ \A d \in S : d # First(S) => Before(First(S), d)
           /\ Final(S) \in S /\ \A d \in S : d # Final(S) => Before(d, Final(S))
           /\ \A c \in S : (\A d \in S : d # c => Before(d, c)) => c = Final(S)
<1>1. IsFiniteSet(S)
  BY ConstantsAssumption, FS_Subset
<1>2. \E c \in S : \A d \in S \ {c} : Before(c, d)
  <2> DEFINE L == {p \in S \X S : Before(p[1], p[2])}
  <2>1. \A c, d \in S : <<c, d>> \in L <=> Before(c, d)
    OBVIOUS
  <2> HIDE DEF L
  <2>2. /\ \A c \in S : <<c, c>> \notin L
        /\ \A c, d, e \in S : <<c, d>> \in L /\ <<d, e>> \in L => <<c, e>> \in L
    BY <2>1, Order
  <2>3. PICK c \in S : \A d \in S : <<d, c>> \notin L
    BY <1>1, <2>2, Least
  <2> QED
    BY <2>1, <2>3, Order
<1>3. \E c \in S : \A d \in S \ {c} : Before(d, c)
  <2> DEFINE L == {p \in S \X S : Before(p[2], p[1])}
  <2>1. \A c, d \in S : <<c, d>> \in L <=> Before(d, c)
    OBVIOUS
  <2> HIDE DEF L
  <2>2. /\ \A c \in S : <<c, c>> \notin L
        /\ \A c, d, e \in S : <<c, d>> \in L /\ <<d, e>> \in L => <<c, e>> \in L
    BY <2>1, Order
  <2>3. PICK c \in S : \A d \in S : <<d, c>> \notin L
    BY <1>1, <2>2, Least
  <2> QED
    BY <2>1, <2>3, Order
<1>4. First(S) \in S /\ \A d \in S \ {First(S)} : Before(First(S), d)
  BY <1>2 DEF First
<1>5. Final(S) \in S /\ \A d \in S \ {Final(S)} : Before(d, Final(S))
  BY <1>3 DEF Final
<1>6. ASSUME NEW c \in S, \A d \in S : d # c => Before(d, c) PROVE c = Final(S)
  BY <1>5, <1>6, Order
<1> QED
  BY <1>4, <1>5, <1>6

-----------------------------------------------------------------------------
(* Pages *)

\* A page is a beginning of what comes after the cursor, empty only if nothing does.
LEMMA PageFacts ==
    ASSUME CreatedOK, NEW S \in SUBSET Contacts, NEW k \in Cursor
    PROVE  /\ Page(S, k) \subseteq S
           /\ \A c \in Page(S, k) : After(c, k)
           /\ \A c \in S, d \in Page(S, k) : After(c, k) /\ Before(c, d) => c \in Page(S, k)
           /\ Page(S, k) = {} => \A c \in S : ~After(c, k)
           /\ \A c \in S : After(c, k) /\ c \notin Page(S, k) =>
                \A d \in Page(S, k) : Before(d, c)
<1> DEFINE rest == {c \in S : After(c, k)}
           below(c) == {d \in rest : Before(d, c)}
<1>1. Page(S, k) = {c \in rest : Cardinality(below(c)) < PageSize}
  BY DEF Page
<1>2. rest \in SUBSET Contacts
  OBVIOUS
<1>3. \A c \in rest : below(c) \in SUBSET Contacts
  OBVIOUS
<1>4. \A c \in rest : IsFiniteSet(below(c)) /\ Cardinality(below(c)) \in Nat
  BY <1>3, ConstantsAssumption, FS_Subset, FS_CardinalityType
<1>5. PageSize \in Nat /\ PageSize > 0
  BY ConstantsAssumption
<1>6. ASSUME NEW c \in S, NEW d \in Page(S, k), After(c, k), Before(c, d)
      PROVE  c \in Page(S, k)
  <2>1. c \in rest /\ d \in rest /\ Cardinality(below(d)) < PageSize
    BY <1>1, <1>6
  <2>2. below(c) \in SUBSET below(d)
    BY <2>1, <1>2, <1>6, Order
  <2>3. Cardinality(below(c)) <= Cardinality(below(d))
    BY <2>1, <2>2, <1>4, FS_Subset
  <2>4. Cardinality(below(c)) \in Nat /\ Cardinality(below(d)) \in Nat
    BY <2>1, <1>4
  <2> HIDE DEF below
  <2>5. Cardinality(below(c)) < PageSize
    BY <2>1, <2>3, <2>4, <1>5
  <2> QED
    BY <2>1, <2>5, <1>1
<1>7. ASSUME Page(S, k) = {}, NEW c \in S, After(c, k) PROVE FALSE
  <2>1. rest # {}
    BY <1>7
  <2>2. First(rest) \in rest /\ \A d \in rest : d # First(rest) => Before(First(rest), d)
    BY <2>1, <1>2, Ordered
  <2>3. below(First(rest)) = {}
    BY <2>2, <1>2, Order
  <2>4. Cardinality(below(First(rest))) = 0
    BY <2>3, FS_EmptySet
  <2> HIDE DEF rest, below
  <2> QED
    BY <2>2, <2>4, <1>5, <1>7, <1>1
<1>8. ASSUME NEW c \in S, After(c, k), c \notin Page(S, k), NEW d \in Page(S, k)
      PROVE  Before(d, c)
  <2>1. c # d /\ d \in Contacts /\ c \in Contacts
    BY <1>8, <1>1
  <2>2. ~Before(c, d)
    BY <1>8, <1>6
  <2> QED
    BY <2>1, <2>2, Order
<1> QED
  BY <1>1, <1>6, <1>7, <1>8

-----------------------------------------------------------------------------
(* The cursors ahead *)

\* No cursor is a cursor, and no contact.
LEMMA NilIsCursor == Nil \in Cursor /\ Nil \notin Contacts /\ Contacts \subseteq Cursor
  BY ConstantsAssumption DEF Cursor

\* The cursor after a page
LEMMA FinalIsCursor ==
    ASSUME CreatedOK, NEW k \in Cursor, Page(Contacts, k) # {}
    PROVE  Final(Page(Contacts, k)) \in Page(Contacts, k) /\ Final(Page(Contacts, k)) \in Cursor
<1>1. Page(Contacts, k) \in SUBSET Contacts
  BY PageFacts
<1> QED
  BY <1>1, Ordered, NilIsCursor

\* A run from k comes to k, goes on page by page, and stays ahead of where it has come to.
LEMMA AheadFacts ==
    ASSUME CreatedOK, NEW k \in Cursor
    PROVE  /\ k \in Ahead(k)
           /\ Ahead(k) \subseteq Cursor /\ Due(k) \subseteq Contacts
           /\ \A j \in Ahead(k) : Page(Contacts, j) # {} => Final(Page(Contacts, j)) \in Ahead(k)
           /\ \A j \in Ahead(k) : Ahead(j) \subseteq Ahead(k) /\ Due(j) \subseteq Due(k)
           /\ \A j \in Ahead(k) : Page(Contacts, j) \subseteq Due(k)
           /\ \A j \in Ahead(k) : Ends(j) => Ends(k)
<1>1. k \in Ahead(k) /\ Ahead(k) \subseteq Cursor /\ Due(k) \subseteq Contacts
  BY DEF Ahead, Due
<1>2. ASSUME NEW j \in Ahead(k), Page(Contacts, j) # {}
      PROVE  Final(Page(Contacts, j)) \in Ahead(k)
  <2>1. j \in Cursor /\ \A S \in SUBSET Cursor : k \in S /\ Closed(S) => j \in S
    BY DEF Ahead
  <2>2. Final(Page(Contacts, j)) \in Cursor
    BY <1>2, <2>1, FinalIsCursor
  <2>3. ASSUME NEW S \in SUBSET Cursor, k \in S, Closed(S)
        PROVE  Final(Page(Contacts, j)) \in S
    BY <2>1, <2>3, <1>2 DEF Closed
  <2> QED
    BY <2>2, <2>3 DEF Ahead
<1>3. ASSUME NEW j \in Ahead(k) PROVE Ahead(j) \subseteq Ahead(k)
  <2>1. Ahead(k) \in SUBSET Cursor /\ Closed(Ahead(k))
    BY <1>1, <1>2 DEF Closed
  <2> QED
    BY <2>1, <1>3 DEF Ahead
<1>4. \A j \in Ahead(k) : Due(j) \subseteq Due(k) /\ (Ends(j) => Ends(k))
  BY <1>3 DEF Due, Ends
<1>5. \A j \in Ahead(k) : Page(Contacts, j) \subseteq Due(k)
  BY <1>1, PageFacts DEF Due
<1> QED
  BY <1>1, <1>2, <1>3, <1>4, <1>5

\* What a run reads from a cursor is a page and what it reads from the end of that page.
LEMMA DueAfterPage ==
    ASSUME CreatedOK, NEW k \in Cursor
    PROVE  /\ Page(Contacts, k) = {} => Ends(k) /\ Due(k) = {}
           /\ Page(Contacts, k) # {} =>
                /\ Final(Page(Contacts, k)) \in Ahead(k)
                /\ Due(k) \subseteq Page(Contacts, k) \cup Due(Final(Page(Contacts, k)))
                /\ Ends(Final(Page(Contacts, k))) => Ends(k)
<1>1. ASSUME Page(Contacts, k) = {} PROVE Ends(k) /\ Due(k) = {}
  <2>1. {k} \in SUBSET Cursor /\ Closed({k})
    BY <1>1 DEF Closed
  <2>2. Ahead(k) = {k}
    BY <2>1, AheadFacts DEF Ahead
  <2> QED
    BY <2>2, <1>1 DEF Ends, Due
<1>2. ASSUME Page(Contacts, k) # {}
      PROVE  /\ Final(Page(Contacts, k)) \in Ahead(k)
             /\ Due(k) \subseteq Page(Contacts, k) \cup Due(Final(Page(Contacts, k)))
             /\ Ends(Final(Page(Contacts, k))) => Ends(k)
  <2> DEFINE f == Final(Page(Contacts, k))
  <2>1. f \in Cursor /\ f \in Ahead(k) /\ (Ends(f) => Ends(k))
    BY <1>2, FinalIsCursor, AheadFacts
  <2>2. {k} \cup Ahead(f) \in SUBSET Cursor /\ f \in Ahead(f)
    BY <2>1, AheadFacts
  <2>3. Closed({k} \cup Ahead(f))
    <3>1. ASSUME NEW j \in {k} \cup Ahead(f), Page(Contacts, j) # {}
          PROVE  Final(Page(Contacts, j)) \in {k} \cup Ahead(f)
      <4>1. CASE j = k
        BY <4>1, <2>2
      <4>2. CASE j \in Ahead(f)
        BY <4>2, <2>1, <3>1, AheadFacts
      <4> QED
        BY <4>1, <4>2
    <3> HIDE DEF f
    <3> QED
      BY <3>1 DEF Closed
  <2> HIDE DEF f
  <2>4. Ahead(k) \subseteq {k} \cup Ahead(f)
    BY <2>2, <2>3 DEF Ahead
  <2>5. Due(k) \subseteq Page(Contacts, k) \cup Due(f)
    BY <2>4 DEF Due
  <2> QED
    BY <2>1, <2>5 DEF f
<1> QED
  BY <1>1, <1>2

\* A run from the start that ends has read every contact.
LEMMA AllDue ==
    ASSUME CreatedOK, Ends(Nil)
    PROVE  Contacts \subseteq Due(Nil)
<1> SUFFICES ASSUME NEW c \in Contacts, c \notin Due(Nil) PROVE FALSE
  OBVIOUS
<1> DEFINE S == {j \in Ahead(Nil) : After(c, j)}
<1>1. Ahead(Nil) \subseteq Cursor /\ Nil \in Ahead(Nil)
  BY NilIsCursor, AheadFacts
<1>2. \A j \in Ahead(Nil) : c \notin Page(Contacts, j)
  BY DEF Due
<1>3. S \in SUBSET Cursor /\ Nil \in S
  BY <1>1, Order
<1>4. Closed(S)
  <2>1. ASSUME NEW j \in S, Page(Contacts, j) # {} PROVE Final(Page(Contacts, j)) \in S
    <3>1. j \in Cursor /\ j \in Ahead(Nil) /\ After(c, j) /\ c \notin Page(Contacts, j)
      BY <1>1, <1>2
    <3>2. Final(Page(Contacts, j)) \in Ahead(Nil)
      BY <3>1, <2>1, NilIsCursor, AheadFacts
    <3>3. Final(Page(Contacts, j)) \in Page(Contacts, j) /\ Page(Contacts, j) \subseteq Contacts
      BY <3>1, <2>1, FinalIsCursor, PageFacts
    <3>4. Before(Final(Page(Contacts, j)), c)
      BY <3>1, <3>3, PageFacts
    <3> QED
      BY <3>2, <3>3, <3>4, Order
  <2> HIDE DEF S
  <2> QED
    BY <2>1 DEF Closed
<1>5. PICK j \in Ahead(Nil) : Page(Contacts, j) = {}
  BY DEF Ends
<1>6. After(c, j)
  <2>1. \A T \in SUBSET Cursor : Nil \in T /\ Closed(T) => j \in T
    BY <1>5 DEF Ahead
  <2> HIDE DEF S
  <2>2. j \in S
    BY <2>1, <1>3, <1>4
  <2> QED
    BY <2>2 DEF S
<1>7. j \in Cursor
  BY <1>1
<1> QED
  BY <1>5, <1>6, <1>7, PageFacts

\* created_at never changes, and with it what a run reads from a cursor.
LEMMA Fixed ==
    ASSUME CreatedOK, created' = created
    PROVE  /\ \A c, d \in Contacts : Before(c, d)' <=> Before(c, d)
           /\ \A c \in Contacts, k \in Cursor : After(c, k)' <=> After(c, k)
           /\ \A S \in SUBSET Contacts : S # {} => First(S)' = First(S) /\ Final(S)' = Final(S)
           /\ \A k \in Cursor : Ahead(k)' = Ahead(k) /\ Due(k)' = Due(k) /\ (Ends(k)' <=> Ends(k))
<1>1. \A c, d : Before(c, d)' <=> Before(c, d)
  BY DEF Before
<1>2. \A c, k : After(c, k)' <=> After(c, k)
  BY DEF After
<1>3. \A S : First(S)' = First(S) /\ Final(S)' = Final(S)
  BY <1>1 DEF First, Final
<1>4. \A S, k : Page(S, k)' = Page(S, k)
  BY <1>1, <1>2 DEF Page
<1>5. \A S : Closed(S)' <=> Closed(S)
  BY <1>3, <1>4 DEF Closed
<1>6. \A k : Ahead(k)' = Ahead(k)
  BY <1>5 DEF Ahead
<1>7. \A k : Due(k)' = Due(k) /\ (Ends(k)' <=> Ends(k))
  BY <1>4, <1>6 DEF Due, Ends
<1> QED
  BY <1>1, <1>2, <1>3, <1>6, <1>7

-----------------------------------------------------------------------------
(* Type correctness *)

\* created has the type the order of the pages needs.
LEMMA Created == ASSUME TypeOK PROVE CreatedOK
  BY ConstantsAssumption DEF TypeOK, CreatedOK

\* The contact a run is at is the first of its page that is left, and its page has a last one.
LEMMA CurrentOK ==
    ASSUME Base, run.todo # {}
    PROVE  /\ Current \in run.todo /\ Current \in Contacts
           /\ \A d \in run.todo : d # Current => Before(Current, d)
           /\ Final(run.todo) \in run.todo /\ Final(run.todo) \in Contacts
           /\ \A d \in run.todo : d # Final(run.todo) => Before(d, Final(run.todo))
<1>1. CreatedOK /\ run.todo \in SUBSET Contacts
  BY Created DEF Base, TypeOK
<1> QED
  BY <1>1, Ordered DEF Current

\* The worker is free.
LEMMA IdleOK == Idle \in Run /\ (run' = Idle => RunOK')
<1>1. Nil \in Cursor /\ Nil \notin Kinds /\ 1 \in 1..ContactTries
  BY NilIsCursor, ConstantsAssumption
<1>2. Idle.seen \in UNION {[S -> Row] : S \in SUBSET Contacts}
  <2>1. Idle.seen \in [{} -> Row]
    BY DEF Idle
  <2> QED
    BY <2>1
<1>3. Idle \in Run
  BY <1>1, <1>2 DEF Idle, Run, Steps
<1>4. ASSUME run' = Idle PROVE RunOK'
  BY <1>3, <1>4 DEF RunOK, Idle, Now
<1> QED
  BY <1>3, <1>4

\* Ghosts
LEMMA PastOK ==
    ASSUME NEW p \in Past
    PROVE  /\ \A J \in SUBSET Contacts : [p EXCEPT !.judged = J] \in Past
           /\ \A Q \in SUBSET Contacts : [p EXCEPT !.queued = Q] \in Past
           /\ \A B \in SUBSET Contacts : [p EXCEPT !.broken = B] \in Past
           /\ \A x \in BOOLEAN : [p EXCEPT !.crossed = x] \in Past
           /\ \A s \in BOOLEAN : [p EXCEPT !.shared = s] \in Past
<1>1. \A J \in SUBSET Contacts : [p EXCEPT !.judged = J] \in Past
  BY SMT DEF Past
<1>2. \A Q \in SUBSET Contacts : [p EXCEPT !.queued = Q] \in Past
  BY SMT DEF Past
<1>3. \A B \in SUBSET Contacts : [p EXCEPT !.broken = B] \in Past
  BY SMT DEF Past
<1>4. \A x \in BOOLEAN : [p EXCEPT !.crossed = x] \in Past
  BY SMT DEF Past
<1>5. \A s \in BOOLEAN : [p EXCEPT !.shared = s] \in Past
  BY SMT DEF Past
<1> QED
  BY <1>1, <1>2, <1>3, <1>4, <1>5

\* re-promote begins them afresh.
LEMMA PastAfresh ==
    ASSUME NEW p \in Past
    PROVE  [p EXCEPT !.judged = {}, !.queued = {}, !.crossed = FALSE, !.shared = FALSE] \in Past
<1>1. [p EXCEPT !.judged = {}] \in Past
  BY PastOK
<1>2. [p EXCEPT !.judged = {}, !.queued = {}] \in Past
  BY <1>1, PastOK
<1>3. [p EXCEPT !.judged = {}, !.queued = {}, !.crossed = FALSE] \in Past
  BY <1>2, PastOK
<1> QED
  BY <1>3, PastOK

\* The writes to the row of a contact keep its type.
LEMMA RowOK ==
    ASSUME row \in [Contacts -> Row], NEW c \in Contacts
    PROVE  /\ [row EXCEPT ![c].extracted = "new"] \in [Contacts -> Row]
           /\ \A f \in {"failed", "resolved"} : [row EXCEPT ![c].failure = f] \in [Contacts -> Row]
           /\ \A o \in Outcomes :
                [row EXCEPT ![c].status = o, ![c].used = row[c].extracted] \in [Contacts -> Row]
<1> DEFINE r == row[c]
<1>1. r \in Row /\ Outcomes \subseteq Statuses
  BY ConstantsAssumption
<1>2. [r EXCEPT !.extracted = "new"] \in Row
  BY <1>1 DEF Row
<1>3. \A f \in {"failed", "resolved"} : [r EXCEPT !.failure = f] \in Row
  BY <1>1 DEF Row
<1>4. \A o \in Outcomes : [r EXCEPT !.status = o, !.used = r.extracted] \in Row
  BY <1>1 DEF Row
<1>5. \A o \in Outcomes :
        [row EXCEPT ![c].status = o, ![c].used = row[c].extracted] =
          [row EXCEPT ![c] = [r EXCEPT !.status = o, !.used = r.extracted]]
  OBVIOUS
<1> QED
  BY <1>2, <1>3, <1>4, <1>5

\* What a request keeps when it goes on to its second write.
LEMMA RequestTypes ==
    ASSUME request \in Request
    PROVE  /\ [request EXCEPT !.at = "write"] \in Request
           /\ [request EXCEPT !.at = "write", !.added = TRUE] \in Request
           /\ [request EXCEPT !.at = "write"].kind = request.kind
           /\ [request EXCEPT !.at = "write"].at = "write"
           /\ [request EXCEPT !.at = "write"].meta = request.meta
           /\ [request EXCEPT !.at = "write", !.added = TRUE].kind = request.kind
           /\ [request EXCEPT !.at = "write", !.added = TRUE].at = "write"
           /\ [request EXCEPT !.at = "write", !.added = TRUE].meta = request.meta
           /\ [request EXCEPT !.at = "write", !.added = TRUE].added = TRUE
<1>1. [request EXCEPT !.at = "write"] \in Request
  BY DEF Request
<1>2. [request EXCEPT !.at = "write", !.added = TRUE] \in Request
  BY <1>1 DEF Request
<1> QED
  BY <1>1, <1>2 DEF Request

\* Nothing has been asked for yet.
LEMMA BaseInit == Init => Base
<1> SUFFICES ASSUME Init PROVE Base
  OBVIOUS
<1>1. Nil \in Cursor /\ Nil \notin Kinds /\ Nil \notin {"rerun", "resume"} /\ 1 \in 1..ContactTries
  BY NilIsCursor, ConstantsAssumption
<1>3. Idle \in Run
  BY IdleOK
<1>4. RunOK
  BY <1>3 DEF Init, RunOK, Idle, Now
<1>5. RequestOK
  BY <1>1 DEF Init, RequestOK, Request, NoRequest
<1>6. JobOK
  BY <1>1, ConstantsAssumption DEF Init, JobOK, Idle
<1>7. TypeOK
  <2>1. \A k \in Kinds : Attempts[k] \in Nat
    BY ConstantsAssumption
  <2>2. 0 \in 0..(Attempts["full"] + Attempts["errors"])
    BY <2>1 DEF Kinds
  <2>3. created \in Times /\ row \in [Contacts -> Row] /\ tasks \subseteq Contacts
    BY ConstantsAssumption DEF Init
  <2>4. meta \in Checkpoint
    BY <1>1 DEF Init, Fresh, Checkpoint
  <2>5. job \in [Kinds -> [state : {"none", "waiting", "active", "done", "failed"},
                           tries : 0..(Attempts["full"] + Attempts["errors"])]]
    BY <2>2 DEF Init
  <2>6. past \in Past
    BY DEF Init, Past
  <2> QED
    BY <2>3, <2>4, <2>5, <2>6, <1>3, <1>4, <1>5 DEF TypeOK, RunOK, RequestOK, Request, Run, Init, Idle, NoRequest
<1> QED
  BY <1>4, <1>5, <1>6, <1>7 DEF Base

JobRecord == [state : {"none", "waiting", "active", "done", "failed"},
              tries : 0..(Attempts["full"] + Attempts["errors"])]

\* TypeOK in the next state, from what RunOK and RequestOK say of it.
LEMMA TypeOfParts ==
    ASSUME RunOK', RequestOK', created' \in Times, row' \in [Contacts -> Row],
           tasks' \subseteq Contacts, meta' \in Checkpoint, job' \in [Kinds -> JobRecord],
           past' \in Past
    PROVE  TypeOK'
  BY DEF TypeOK, RunOK, RequestOK, Request, Run, JobRecord

\* A page of contacts is a set of contacts.
LEMMA PageOfContacts ==
    ASSUME Base, NEW k \in Cursor, NEW S \in SUBSET Contacts
    PROVE  Page(S, k) \in SUBSET Contacts
  BY Created, PageFacts DEF Base

\* The loop is done with a contact.
LEMMA AdvancedOK ==
    ASSUME Base, Now, run' = Advanced
    PROVE  RunOK'
<1>1. Current \in run.todo /\ Current \in Contacts /\ run \in Run /\ run.phase = "resolve"
  BY CurrentOK DEF Base, RunOK, Now
<1>2. Current \in Cursor /\ 1 \in 1..ContactTries /\ run.todo \subseteq DOMAIN run.seen
  BY <1>1, NilIsCursor, ConstantsAssumption DEF Base, RunOK
<1>3. run.todo # {Current} => run.todo \ {Current} # {}
  BY <1>1
<1> QED
  BY <1>1, <1>2, <1>3 DEF Advanced, RunOK, Run, Now, Steps

\* Every action keeps the types, the memory of the run, the jobs and the requests.
LEMMA BaseNext == ASSUME Base, Next PROVE Base'
<1>1. ASSUME NEW kd \in {"rerun", "resume", "errors"}, Call(kd) PROVE Base'
  <2>1. RunOK'
    BY <1>1, CurrentOK, NilIsCursor, ConstantsAssumption
       DEF Call, Base, TypeOK, Checkpoint, RunOK, Run, Now, Running, Steps, Idle
  <2>2. JobOK'
    BY <1>1, ConstantsAssumption
       DEF Call, Base, TypeOK, JobOK, RunOK, Run, Waiting, Running, Idle, Kinds
  <2>3. RequestOK'
    BY <1>1, ConstantsAssumption
       DEF Call, Base, TypeOK, RequestOK, Request, NoRequest
  <2>4. created' \in Times /\ row' \in [Contacts -> Row] /\ tasks' \subseteq Contacts
    BY <1>1, CurrentOK DEF Call, Base, TypeOK, Write, Running
  <2>5. meta' \in Checkpoint
    BY <1>1, CurrentOK, NilIsCursor
       DEF Call, Base, TypeOK, RunOK, Run, RequestOK, Checkpoint, Fresh, Write, Running
  <2>6. job' \in [Kinds -> JobRecord]
    BY <1>1, ConstantsAssumption
       DEF Call, Base, TypeOK, JobOK, RunOK, Run, Waiting, Kinds, JobRecord
  <2>7. past' \in Past
    BY <1>1, PastOK DEF Call, Base, TypeOK, RunOK, Run, Past, Write
  <2> QED
    BY <2>1, <2>2, <2>3, <2>4, <2>5, <2>6, <2>7, TypeOfParts DEF Base
<1>2. ASSUME AddAfresh PROVE Base'
  <2>1. RunOK'
    BY <1>2, CurrentOK, NilIsCursor, ConstantsAssumption
       DEF AddAfresh, Base, TypeOK, Checkpoint, RunOK, Run, Now, Running, Steps, Idle
  <2>2. JobOK'
    BY <1>2, ConstantsAssumption
       DEF AddAfresh, Base, TypeOK, JobOK, RunOK, Run, Waiting, Running, Idle, Kinds
  <2>3. RequestOK'
    BY <1>2, RequestTypes DEF AddAfresh, Base, RequestOK
  <2>4. created' \in Times /\ row' \in [Contacts -> Row] /\ tasks' \subseteq Contacts
    BY <1>2, CurrentOK DEF AddAfresh, Base, TypeOK, Write, Running
  <2>5. meta' \in Checkpoint
    BY <1>2, CurrentOK, NilIsCursor
       DEF AddAfresh, Base, TypeOK, RunOK, Run, RequestOK, Checkpoint, Fresh, Write, Running
  <2>6. job' \in [Kinds -> JobRecord]
    BY <1>2, ConstantsAssumption
       DEF AddAfresh, Base, TypeOK, JobOK, RunOK, Run, Waiting, Kinds, JobRecord
  <2>7. past' \in Past
    BY <1>2, PastAfresh DEF AddAfresh, Base, TypeOK
  <2> QED
    BY <2>1, <2>2, <2>3, <2>4, <2>5, <2>6, <2>7, TypeOfParts DEF Base
<1>3. ASSUME AddToResume PROVE Base'
  <2>1. RunOK'
    BY <1>3, CurrentOK, NilIsCursor, ConstantsAssumption
       DEF AddToResume, Base, TypeOK, Checkpoint, RunOK, Run, Now, Running, Steps, Idle
  <2>2. JobOK'
    BY <1>3, ConstantsAssumption
       DEF AddToResume, Base, TypeOK, JobOK, RunOK, Run, Waiting, Running, Idle, Kinds
  <2>3. RequestOK'
    <3>1. NoRequest \in Request /\ NoRequest.kind # "resume" /\ NoRequest.at # "add"
      BY ConstantsAssumption DEF NoRequest, Request
    <3>2. \/ request' = NoRequest
          \/ request' = [request EXCEPT !.at = "write", !.added = TRUE]
      BY <1>3 DEF AddToResume
    <3> QED
      BY <3>1, <3>2, RequestTypes DEF Base, RequestOK
  <2>4. created' \in Times /\ row' \in [Contacts -> Row] /\ tasks' \subseteq Contacts
    BY <1>3, CurrentOK DEF AddToResume, Base, TypeOK, Write, Running
  <2>5. meta' \in Checkpoint
    BY <1>3, CurrentOK, NilIsCursor
       DEF AddToResume, Base, TypeOK, RunOK, Run, RequestOK, Checkpoint, Fresh, Write, Running
  <2>6. job' \in [Kinds -> JobRecord]
    BY <1>3, ConstantsAssumption
       DEF AddToResume, Base, TypeOK, JobOK, RunOK, Run, Waiting, Kinds, JobRecord
  <2>7. past' \in Past
    BY <1>3, PastOK DEF AddToResume, Base, TypeOK, RunOK, Run, Past, Write
  <2> QED
    BY <2>1, <2>2, <2>3, <2>4, <2>5, <2>6, <2>7, TypeOfParts DEF Base
<1>4. ASSUME WriteMetadata PROVE Base'
  <2>1. RunOK'
    BY <1>4, CurrentOK, NilIsCursor, ConstantsAssumption
       DEF WriteMetadata, Base, TypeOK, Checkpoint, RunOK, Run, Now, Running, Steps, Idle
  <2>2. JobOK'
    BY <1>4, ConstantsAssumption
       DEF WriteMetadata, Base, TypeOK, JobOK, RunOK, Run, Waiting, Running, Idle, Kinds
  <2>3. RequestOK'
    BY <1>4, ConstantsAssumption
       DEF WriteMetadata, Base, TypeOK, RequestOK, Request, NoRequest
  <2>4. created' \in Times /\ row' \in [Contacts -> Row] /\ tasks' \subseteq Contacts
    BY <1>4, CurrentOK DEF WriteMetadata, Base, TypeOK, Write, Running
  <2>5. meta' \in Checkpoint
    BY <1>4, CurrentOK, NilIsCursor
       DEF WriteMetadata, Base, TypeOK, RunOK, Run, RequestOK, Checkpoint, Fresh, Write, Running
  <2>6. job' \in [Kinds -> JobRecord]
    BY <1>4, ConstantsAssumption
       DEF WriteMetadata, Base, TypeOK, JobOK, RunOK, Run, Waiting, Kinds, JobRecord
  <2>7. past' \in Past
    <3>1. [past EXCEPT !.shared = past.shared \/ request.kind = "errors"] \in Past
      BY PastOK DEF Base, TypeOK, Past
    <3>2. (past.crossed \/ (request.kind = "resume" /\ request.meta # meta)) \in BOOLEAN
      BY DEF Base, TypeOK, Past
    <3> QED
      BY <1>4, <3>1, <3>2, PastOK DEF WriteMetadata
  <2> QED
    BY <2>1, <2>2, <2>3, <2>4, <2>5, <2>6, <2>7, TypeOfParts DEF Base
<1>5. ASSUME NEW k \in Kinds, Load(k) PROVE Base'
  <2>1. RunOK'
    <3>1. run' = [kind |-> k, at |-> "start", phase |-> meta.phase, from |-> meta.cursor,
                  cursor |-> meta.cursor, promo |-> meta.promo, todo |-> {}, seen |-> Idle.seen,
                  try |-> 1]
      BY <1>5 DEF Load, Idle
    <3>2. Idle.seen \in UNION {[S -> Row] : S \in SUBSET Contacts} /\ 1 \in 1..ContactTries
      BY IdleOK DEF Run, Idle
    <3>3. run' \in Run
      BY <3>1, <3>2 DEF Run, Steps, Base, TypeOK, Checkpoint
    <3> QED
      BY <3>1, <3>3 DEF RunOK, Now
  <2>2. JobOK'
    BY <1>5, ConstantsAssumption
       DEF Load, Base, TypeOK, JobOK, RunOK, Run, Waiting, Running, Idle, Kinds
  <2>3. RequestOK'
    BY <1>5, ConstantsAssumption
       DEF Load, Base, TypeOK, RequestOK, Request, NoRequest
  <2>4. created' \in Times /\ row' \in [Contacts -> Row] /\ tasks' \subseteq Contacts
    BY <1>5, CurrentOK DEF Load, Base, TypeOK, Write, Running
  <2>5. meta' \in Checkpoint
    BY <1>5, CurrentOK, NilIsCursor
       DEF Load, Base, TypeOK, RunOK, Run, RequestOK, Checkpoint, Fresh, Write, Running
  <2>6. job' \in [Kinds -> JobRecord]
    BY <1>5, ConstantsAssumption
       DEF Load, Base, TypeOK, JobOK, RunOK, Run, Waiting, Kinds, JobRecord
  <2>7. past' \in Past
    BY <1>5, PastOK DEF Load, Base, TypeOK, RunOK, Run, Past, Write
  <2> QED
    BY <2>1, <2>2, <2>3, <2>4, <2>5, <2>6, <2>7, TypeOfParts DEF Base
<1>6. ASSUME Start PROVE Base'
  <2>1. RunOK'
    BY <1>6, CurrentOK, NilIsCursor, ConstantsAssumption
       DEF Start, Base, TypeOK, Checkpoint, RunOK, Run, Now, Running, Steps, Idle
  <2>2. JobOK'
    BY <1>6, ConstantsAssumption
       DEF Start, Base, TypeOK, JobOK, RunOK, Run, Waiting, Running, Idle, Kinds
  <2>3. RequestOK'
    BY <1>6, ConstantsAssumption
       DEF Start, Base, TypeOK, RequestOK, Request, NoRequest
  <2>4. created' \in Times /\ row' \in [Contacts -> Row] /\ tasks' \subseteq Contacts
    BY <1>6, CurrentOK DEF Start, Base, TypeOK, Write, Running
  <2>5. meta' \in Checkpoint
    BY <1>6, CurrentOK, NilIsCursor
       DEF Start, Base, TypeOK, RunOK, Run, RequestOK, Checkpoint, Fresh, Write, Running
  <2>6. job' \in [Kinds -> JobRecord]
    BY <1>6, ConstantsAssumption
       DEF Start, Base, TypeOK, JobOK, RunOK, Run, Waiting, Kinds, JobRecord
  <2>7. past' \in Past
    BY <1>6, PastOK DEF Start, Base, TypeOK, RunOK, Run, Past, Write
  <2> QED
    BY <2>1, <2>2, <2>3, <2>4, <2>5, <2>6, <2>7, TypeOfParts DEF Base
<1>7. ASSUME ReadPage PROVE Base'
  <2>1. RunOK'
    <3> DEFINE page == Page(Scope, run.cursor)
               seen == [c \in page |-> row[c]]
    <3>1. run \in Run /\ run.at = "page" /\ run.phase = "resolve"
      BY <1>7 DEF ReadPage, Running, Base, RunOK
    <3>2. page \in SUBSET Contacts
      <4>1. Scope \in SUBSET Contacts /\ run.cursor \in Cursor
        BY <3>1 DEF Scope, Run
      <4> QED
        BY <4>1, PageOfContacts
    <3>3. seen \in [page -> Row]
      BY <3>2 DEF Base, TypeOK
    <3>4. seen \in UNION {[S -> Row] : S \in SUBSET Contacts} /\ DOMAIN seen = page
      BY <3>2, <3>3
    <3>5. run' = IF page = {} THEN Switched ELSE Taken(page)
      BY <1>7 DEF ReadPage
    <3>6. Taken(page) = [run EXCEPT !.at = "backfill", !.todo = page, !.seen = seen, !.try = 1]
      BY DEF Taken
    <3> HIDE DEF page, seen
    <3>7. CASE page = {}
      BY <3>1, <3>5, <3>7, NilIsCursor DEF Switched, RunOK, Run, Now, Steps
    <3>8. CASE page # {}
      <4>1. 1 \in 1..ContactTries
        BY ConstantsAssumption
      <4>2. run' \in Run
        BY <3>1, <3>2, <3>4, <3>5, <3>6, <3>8, <4>1 DEF Run, Steps
      <4>3. /\ run'.at = "backfill" /\ run'.phase = "resolve" /\ run'.todo = page
            /\ run'.seen = seen
        BY <3>1, <3>5, <3>6, <3>8 DEF Run
      <4> QED
        BY <3>4, <3>8, <4>2, <4>3 DEF RunOK, Now
    <3> QED
      BY <3>7, <3>8
  <2>2. JobOK'
    BY <1>7, ConstantsAssumption
       DEF ReadPage, Base, TypeOK, JobOK, RunOK, Run, Waiting, Running, Idle, Kinds, Switched, Taken
  <2>3. RequestOK'
    BY <1>7, ConstantsAssumption
       DEF ReadPage, Base, TypeOK, RequestOK, Request, NoRequest
  <2>4. created' \in Times /\ row' \in [Contacts -> Row] /\ tasks' \subseteq Contacts
    BY <1>7, CurrentOK DEF ReadPage, Base, TypeOK, Write, Running
  <2>5. meta' \in Checkpoint
    BY <1>7, CurrentOK, NilIsCursor
       DEF ReadPage, Base, TypeOK, RunOK, Run, RequestOK, Checkpoint, Fresh, Write, Running
  <2>6. job' \in [Kinds -> JobRecord]
    BY <1>7, ConstantsAssumption
       DEF ReadPage, Base, TypeOK, JobOK, RunOK, Run, Waiting, Kinds, JobRecord
  <2>7. past' \in Past
    BY <1>7, PastOK DEF ReadPage, Base, TypeOK, RunOK, Run, Past, Write
  <2> QED
    BY <2>1, <2>2, <2>3, <2>4, <2>5, <2>6, <2>7, TypeOfParts DEF Base
<1>8. ASSUME Backfill PROVE Base'
  <2>1. RunOK'
    BY <1>8, CurrentOK, NilIsCursor, ConstantsAssumption
       DEF Backfill, Base, TypeOK, Checkpoint, RunOK, Run, Now, Running, Steps, Idle
  <2>2. JobOK'
    BY <1>8, ConstantsAssumption
       DEF Backfill, Base, TypeOK, JobOK, RunOK, Run, Waiting, Running, Idle, Kinds
  <2>3. RequestOK'
    BY <1>8, ConstantsAssumption
       DEF Backfill, Base, TypeOK, RequestOK, Request, NoRequest
  <2>4. created' \in Times /\ row' \in [Contacts -> Row] /\ tasks' \subseteq Contacts
    BY <1>8, CurrentOK, RowOK DEF Backfill, Base, TypeOK, Running
  <2>5. meta' \in Checkpoint
    BY <1>8, CurrentOK, NilIsCursor
       DEF Backfill, Base, TypeOK, RunOK, Run, RequestOK, Checkpoint, Fresh, Write, Running
  <2>6. job' \in [Kinds -> JobRecord]
    BY <1>8, ConstantsAssumption
       DEF Backfill, Base, TypeOK, JobOK, RunOK, Run, Waiting, Kinds, JobRecord
  <2>7. past' \in Past
    BY <1>8, PastOK DEF Backfill, Base, TypeOK, RunOK, Run, Past, Write
  <2> QED
    BY <2>1, <2>2, <2>3, <2>4, <2>5, <2>6, <2>7, TypeOfParts DEF Base
<1>9. ASSUME NEW o \in Outcomes, Resolve(o) PROVE Base'
  <2>1. RunOK'
    BY <1>9, CurrentOK, NilIsCursor, ConstantsAssumption
       DEF Resolve, Base, TypeOK, Checkpoint, RunOK, Run, Now, Running, Steps, Idle
  <2>2. JobOK'
    BY <1>9, ConstantsAssumption
       DEF Resolve, Base, TypeOK, JobOK, RunOK, Run, Waiting, Running, Idle, Kinds
  <2>3. RequestOK'
    BY <1>9, ConstantsAssumption
       DEF Resolve, Base, TypeOK, RequestOK, Request, NoRequest
  <2>4. created' \in Times /\ row' \in [Contacts -> Row] /\ tasks' \subseteq Contacts
    BY <1>9, CurrentOK, RowOK DEF Resolve, Base, TypeOK, Running
  <2>5. meta' \in Checkpoint
    BY <1>9, CurrentOK, NilIsCursor
       DEF Resolve, Base, TypeOK, RunOK, Run, RequestOK, Checkpoint, Fresh, Write, Running
  <2>6. job' \in [Kinds -> JobRecord]
    BY <1>9, ConstantsAssumption
       DEF Resolve, Base, TypeOK, JobOK, RunOK, Run, Waiting, Kinds, JobRecord
  <2>7. past' \in Past
    BY <1>9, PastOK DEF Resolve, Base, TypeOK, RunOK, Run, Past, Write
  <2> QED
    BY <2>1, <2>2, <2>3, <2>4, <2>5, <2>6, <2>7, TypeOfParts DEF Base
<1>10. ASSUME Ask PROVE Base'
  <2>1. RunOK'
    BY <1>10, CurrentOK, NilIsCursor, ConstantsAssumption
       DEF Ask, Base, TypeOK, Checkpoint, RunOK, Run, Now, Running, Steps, Idle
  <2>2. JobOK'
    BY <1>10, ConstantsAssumption
       DEF Ask, Base, TypeOK, JobOK, RunOK, Run, Waiting, Running, Idle, Kinds
  <2>3. RequestOK'
    BY <1>10, ConstantsAssumption
       DEF Ask, Base, TypeOK, RequestOK, Request, NoRequest
  <2>4. created' \in Times /\ row' \in [Contacts -> Row] /\ tasks' \subseteq Contacts
    BY <1>10, CurrentOK DEF Ask, Base, TypeOK, Write, Running
  <2>5. meta' \in Checkpoint
    BY <1>10, CurrentOK, NilIsCursor
       DEF Ask, Base, TypeOK, RunOK, Run, RequestOK, Checkpoint, Fresh, Write, Running
  <2>6. job' \in [Kinds -> JobRecord]
    BY <1>10, ConstantsAssumption
       DEF Ask, Base, TypeOK, JobOK, RunOK, Run, Waiting, Kinds, JobRecord
  <2>7. past' \in Past
    BY <1>10, PastOK DEF Ask, Base, TypeOK, RunOK, Run, Past, Write
  <2> QED
    BY <2>1, <2>2, <2>3, <2>4, <2>5, <2>6, <2>7, TypeOfParts DEF Base
<1>11. ASSUME Clear PROVE Base'
  <2>1. RunOK'
    BY <1>11, AdvancedOK DEF Clear, Running, Now
  <2>2. JobOK'
    BY <1>11, ConstantsAssumption
       DEF Clear, Base, TypeOK, JobOK, RunOK, Run, Waiting, Running, Idle, Kinds, Advanced
  <2>3. RequestOK'
    BY <1>11, ConstantsAssumption
       DEF Clear, Base, TypeOK, RequestOK, Request, NoRequest
  <2>4. created' \in Times /\ row' \in [Contacts -> Row] /\ tasks' \subseteq Contacts
    BY <1>11, CurrentOK, RowOK DEF Clear, Base, TypeOK, Running
  <2>5. meta' \in Checkpoint
    BY <1>11, CurrentOK, NilIsCursor
       DEF Clear, Base, TypeOK, RunOK, Run, RequestOK, Checkpoint, Fresh, Write, Running
  <2>6. job' \in [Kinds -> JobRecord]
    BY <1>11, ConstantsAssumption
       DEF Clear, Base, TypeOK, JobOK, RunOK, Run, Waiting, Kinds, JobRecord
  <2>7. past' \in Past
    <3>1. Judged \in SUBSET Contacts
      BY <1>11, CurrentOK DEF Clear, Running, Judged, Base, TypeOK, Past
    <3> QED
      BY <1>11, <3>1, PastOK DEF Clear, Base, TypeOK
  <2> QED
    BY <2>1, <2>2, <2>3, <2>4, <2>5, <2>6, <2>7, TypeOfParts DEF Base
<1>12. ASSUME FailTry PROVE Base'
  <2>1. RunOK'
    <3>1. CASE run.try < ContactTries
      <4>1. /\ run' = [run EXCEPT !.at = "backfill", !.try = run.try + 1]
            /\ run \in Run /\ run.phase = "resolve" /\ run.todo # {}
            /\ run.todo \subseteq DOMAIN run.seen
        BY <1>12, <3>1 DEF FailTry, Base, RunOK, Now
      <4>2. run.try + 1 \in 1..ContactTries
        BY <4>1, <3>1, ConstantsAssumption DEF Run
      <4> QED
        BY <4>1, <4>2 DEF RunOK, Run, Now, Steps
    <3>2. CASE ~ (run.try < ContactTries)
      BY <1>12, <3>2, AdvancedOK DEF FailTry, Now
    <3> QED
      BY <3>1, <3>2
  <2>2. JobOK'
    BY <1>12, ConstantsAssumption
       DEF FailTry, Base, TypeOK, JobOK, RunOK, Run, Waiting, Running, Idle, Kinds, Advanced
  <2>3. RequestOK'
    BY <1>12, ConstantsAssumption
       DEF FailTry, Base, TypeOK, RequestOK, Request, NoRequest
  <2>4. created' \in Times /\ row' \in [Contacts -> Row] /\ tasks' \subseteq Contacts
    BY <1>12, CurrentOK, RowOK DEF FailTry, Base, TypeOK, Running
  <2>5. meta' \in Checkpoint
    BY <1>12, CurrentOK, NilIsCursor
       DEF FailTry, Base, TypeOK, RunOK, Run, RequestOK, Checkpoint, Fresh, Write, Running
  <2>6. job' \in [Kinds -> JobRecord]
    BY <1>12, ConstantsAssumption
       DEF FailTry, Base, TypeOK, JobOK, RunOK, Run, Waiting, Kinds, JobRecord
  <2>7. past' \in Past
    <3>1. Judged \in SUBSET Contacts /\ Broken \in SUBSET Contacts
      BY <1>12, CurrentOK DEF FailTry, Running, Judged, Broken, Base, TypeOK, Past
    <3>2. [past EXCEPT !.broken = Broken] \in Past
      BY <3>1, PastOK DEF Base, TypeOK
    <3>3. [past EXCEPT !.broken = Broken, !.judged = Judged] \in Past
      BY <3>1, <3>2, PastOK
    <3> QED
      BY <1>12, <3>2, <3>3 DEF FailTry
  <2> QED
    BY <2>1, <2>2, <2>3, <2>4, <2>5, <2>6, <2>7, TypeOfParts DEF Base
<1>13. ASSUME Save PROVE Base'
  <2>1. RunOK'
    <3>1. Idle.seen \in UNION {[S -> Row] : S \in SUBSET Contacts}
      BY IdleOK DEF Run
    <3>2. run' = [run EXCEPT !.at = "page", !.seen = Idle.seen] /\ run \in Run /\ run.phase = "resolve"
      BY <1>13 DEF Save, Running, Base, RunOK
    <3> QED
      BY <3>1, <3>2 DEF RunOK, Run, Now, Steps
  <2>2. JobOK'
    BY <1>13, ConstantsAssumption
       DEF Save, Base, TypeOK, JobOK, RunOK, Run, Waiting, Running, Idle, Kinds
  <2>3. RequestOK'
    BY <1>13, ConstantsAssumption
       DEF Save, Base, TypeOK, RequestOK, Request, NoRequest
  <2>4. created' \in Times /\ row' \in [Contacts -> Row] /\ tasks' \subseteq Contacts
    BY <1>13, CurrentOK DEF Save, Base, TypeOK, Write, Running
  <2>5. meta' \in Checkpoint
    BY <1>13, CurrentOK, NilIsCursor
       DEF Save, Base, TypeOK, RunOK, Run, RequestOK, Checkpoint, Fresh, Write, Running
  <2>6. job' \in [Kinds -> JobRecord]
    BY <1>13, ConstantsAssumption
       DEF Save, Base, TypeOK, JobOK, RunOK, Run, Waiting, Kinds, JobRecord
  <2>7. past' \in Past
    BY <1>13, PastOK DEF Save, Base, TypeOK, RunOK, Run, Past, Write
  <2> QED
    BY <2>1, <2>2, <2>3, <2>4, <2>5, <2>6, <2>7, TypeOfParts DEF Base
<1>14. ASSUME Switch PROVE Base'
  <2>1. RunOK'
    BY <1>14, CurrentOK, NilIsCursor, ConstantsAssumption
       DEF Switch, Base, TypeOK, Checkpoint, RunOK, Run, Now, Running, Steps, Idle
  <2>2. JobOK'
    BY <1>14, ConstantsAssumption
       DEF Switch, Base, TypeOK, JobOK, RunOK, Run, Waiting, Running, Idle, Kinds
  <2>3. RequestOK'
    BY <1>14, ConstantsAssumption
       DEF Switch, Base, TypeOK, RequestOK, Request, NoRequest
  <2>4. created' \in Times /\ row' \in [Contacts -> Row] /\ tasks' \subseteq Contacts
    BY <1>14, CurrentOK DEF Switch, Base, TypeOK, Write, Running
  <2>5. meta' \in Checkpoint
    BY <1>14, CurrentOK, NilIsCursor
       DEF Switch, Base, TypeOK, RunOK, Run, RequestOK, Checkpoint, Fresh, Write, Running
  <2>6. job' \in [Kinds -> JobRecord]
    BY <1>14, ConstantsAssumption
       DEF Switch, Base, TypeOK, JobOK, RunOK, Run, Waiting, Kinds, JobRecord
  <2>7. past' \in Past
    BY <1>14, PastOK DEF Switch, Base, TypeOK, RunOK, Run, Past, Write
  <2> QED
    BY <2>1, <2>2, <2>3, <2>4, <2>5, <2>6, <2>7, TypeOfParts DEF Base
<1>15. ASSUME QueuePage PROVE Base'
  <2>1. RunOK'
    <3>1. \A S \in SUBSET Contacts : Page(S, run.promo) \in SUBSET Contacts
      BY PageOfContacts DEF Base, RunOK, Run
    <3> DEFINE page == Page({c \in Contacts : row[c].status = "resolved"}, run.promo)
    <3>2. page \in SUBSET Contacts
      BY <3>1
    <3>3. run' = IF page = {} THEN [run EXCEPT !.at = "finish"]
                            ELSE [run EXCEPT !.at = "note", !.todo = page]
      BY <1>15 DEF QueuePage
    <3>4. run \in Run /\ run.phase = "promote"
      BY <1>15 DEF QueuePage, Running, Base, RunOK
    <3> HIDE DEF page
    <3> QED
      BY <3>2, <3>3, <3>4 DEF RunOK, Run, Now, Steps
  <2>2. JobOK'
    BY <1>15, ConstantsAssumption
       DEF QueuePage, Base, TypeOK, JobOK, RunOK, Run, Waiting, Running, Idle, Kinds
  <2>3. RequestOK'
    BY <1>15, ConstantsAssumption
       DEF QueuePage, Base, TypeOK, RequestOK, Request, NoRequest
  <2>4. created' \in Times /\ row' \in [Contacts -> Row] /\ tasks' \subseteq Contacts
    BY <1>15, CurrentOK DEF QueuePage, Base, TypeOK, Write, Running
  <2>5. meta' \in Checkpoint
    BY <1>15, CurrentOK, NilIsCursor
       DEF QueuePage, Base, TypeOK, RunOK, Run, RequestOK, Checkpoint, Fresh, Write, Running
  <2>6. job' \in [Kinds -> JobRecord]
    BY <1>15, ConstantsAssumption
       DEF QueuePage, Base, TypeOK, JobOK, RunOK, Run, Waiting, Kinds, JobRecord
  <2>7. past' \in Past
    <3>1. \A S \in SUBSET Contacts : Queued(Page(S, run.promo)) \in SUBSET Contacts
      BY PageOfContacts DEF Queued, Base, TypeOK, RunOK, Run, Past
    <3> DEFINE page == Page({c \in Contacts : row[c].status = "resolved"}, run.promo)
    <3>2. Queued(page) \in SUBSET Contacts
      BY <3>1
    <3>3. past' = past \/ past' = [past EXCEPT !.queued = Queued(page)]
      BY <1>15 DEF QueuePage
    <3> HIDE DEF page
    <3> QED
      BY <3>2, <3>3, PastOK DEF Base, TypeOK
  <2> QED
    BY <2>1, <2>2, <2>3, <2>4, <2>5, <2>6, <2>7, TypeOfParts DEF Base
<1>16. ASSUME Note PROVE Base'
  <2>1. RunOK'
    BY <1>16, CurrentOK, NilIsCursor, ConstantsAssumption
       DEF Note, Base, TypeOK, Checkpoint, RunOK, Run, Now, Running, Steps, Idle
  <2>2. JobOK'
    BY <1>16, ConstantsAssumption
       DEF Note, Base, TypeOK, JobOK, RunOK, Run, Waiting, Running, Idle, Kinds
  <2>3. RequestOK'
    BY <1>16, ConstantsAssumption
       DEF Note, Base, TypeOK, RequestOK, Request, NoRequest
  <2>4. created' \in Times /\ row' \in [Contacts -> Row] /\ tasks' \subseteq Contacts
    BY <1>16, CurrentOK DEF Note, Base, TypeOK, Write, Running
  <2>5. meta' \in Checkpoint
    BY <1>16, CurrentOK, NilIsCursor
       DEF Note, Base, TypeOK, RunOK, Run, RequestOK, Checkpoint, Fresh, Write, Running
  <2>6. job' \in [Kinds -> JobRecord]
    BY <1>16, ConstantsAssumption
       DEF Note, Base, TypeOK, JobOK, RunOK, Run, Waiting, Kinds, JobRecord
  <2>7. past' \in Past
    BY <1>16, PastOK DEF Note, Base, TypeOK, RunOK, Run, Past, Write
  <2> QED
    BY <2>1, <2>2, <2>3, <2>4, <2>5, <2>6, <2>7, TypeOfParts DEF Base
<1>17. ASSUME Finish PROVE Base'
  <2>1. RunOK'
    BY <1>17, CurrentOK, NilIsCursor, ConstantsAssumption
       DEF Finish, Base, TypeOK, Checkpoint, RunOK, Run, Now, Running, Steps, Idle
  <2>2. JobOK'
    BY <1>17, ConstantsAssumption
       DEF Finish, Base, TypeOK, JobOK, RunOK, Run, Waiting, Running, Idle, Kinds
  <2>3. RequestOK'
    BY <1>17, ConstantsAssumption
       DEF Finish, Base, TypeOK, RequestOK, Request, NoRequest
  <2>4. created' \in Times /\ row' \in [Contacts -> Row] /\ tasks' \subseteq Contacts
    BY <1>17, CurrentOK DEF Finish, Base, TypeOK, Write, Running
  <2>5. meta' \in Checkpoint
    BY <1>17, CurrentOK, NilIsCursor
       DEF Finish, Base, TypeOK, RunOK, Run, RequestOK, Checkpoint, Fresh, Write, Running
  <2>6. job' \in [Kinds -> JobRecord]
    BY <1>17, ConstantsAssumption
       DEF Finish, Base, TypeOK, JobOK, RunOK, Run, Waiting, Kinds, JobRecord
  <2>7. past' \in Past
    BY <1>17, PastOK DEF Finish, Base, TypeOK, RunOK, Run, Past, Write
  <2> QED
    BY <2>1, <2>2, <2>3, <2>4, <2>5, <2>6, <2>7, TypeOfParts DEF Base
<1>18. ASSUME Complete PROVE Base'
  <2>1. RunOK'
    BY <1>18, IdleOK DEF Complete
  <2>2. JobOK'
    BY <1>18, ConstantsAssumption
       DEF Complete, Base, TypeOK, JobOK, RunOK, Run, Waiting, Running, Idle, Kinds
  <2>3. RequestOK'
    BY <1>18, ConstantsAssumption
       DEF Complete, Base, TypeOK, RequestOK, Request, NoRequest
  <2>4. created' \in Times /\ row' \in [Contacts -> Row] /\ tasks' \subseteq Contacts
    BY <1>18, CurrentOK DEF Complete, Base, TypeOK, Write, Running
  <2>5. meta' \in Checkpoint
    BY <1>18, CurrentOK, NilIsCursor
       DEF Complete, Base, TypeOK, RunOK, Run, RequestOK, Checkpoint, Fresh, Write, Running
  <2>6. job' \in [Kinds -> JobRecord]
    <3>1. run.kind \in Kinds /\ job \in [Kinds -> JobRecord]
      BY <1>18 DEF Complete, Running, Base, TypeOK, RunOK, Run, JobRecord
    <3> QED
      BY <1>18, <3>1 DEF Complete, JobRecord
  <2>7. past' \in Past
    BY <1>18, PastOK DEF Complete, Base, TypeOK, RunOK, Run, Past, Write
  <2> QED
    BY <2>1, <2>2, <2>3, <2>4, <2>5, <2>6, <2>7, TypeOfParts DEF Base
<1>19. ASSUME Throw PROVE Base'
  <2>1. RunOK'
    BY <1>19, IdleOK DEF Throw
  <2>2. JobOK'
    BY <1>19, ConstantsAssumption
       DEF Throw, Base, TypeOK, JobOK, RunOK, Run, Waiting, Running, Idle, Kinds
  <2>3. RequestOK'
    BY <1>19, ConstantsAssumption
       DEF Throw, Base, TypeOK, RequestOK, Request, NoRequest
  <2>4. created' \in Times /\ row' \in [Contacts -> Row] /\ tasks' \subseteq Contacts
    BY <1>19, CurrentOK DEF Throw, Base, TypeOK, Write, Running
  <2>5. meta' \in Checkpoint
    BY <1>19, CurrentOK, NilIsCursor
       DEF Throw, Base, TypeOK, RunOK, Run, RequestOK, Checkpoint, Fresh, Write, Running
  <2>6. job' \in [Kinds -> JobRecord]
    BY <1>19, ConstantsAssumption
       DEF Throw, Base, TypeOK, JobOK, RunOK, Run, Waiting, Kinds, JobRecord
  <2>7. past' \in Past
    <3>1. Broken \in SUBSET Contacts
      BY CurrentOK DEF Running, Broken, Base, TypeOK, Past
    <3>2. [past EXCEPT !.shared = past.shared \/ run.kind = "errors"] \in Past
      BY PastOK DEF Base, TypeOK, Past
    <3> QED
      BY <1>19, <3>1, <3>2, PastOK DEF Throw
  <2> QED
    BY <2>1, <2>2, <2>3, <2>4, <2>5, <2>6, <2>7, TypeOfParts DEF Base
<1>20. ASSUME Crash PROVE Base'
  <2>1. RunOK'
    BY <1>20, IdleOK DEF Crash
  <2>2. JobOK'
    BY <1>20, ConstantsAssumption
       DEF Crash, Base, TypeOK, JobOK, RunOK, Run, Waiting, Running, Idle, Kinds
  <2>3. RequestOK'
    BY <1>20, ConstantsAssumption
       DEF Crash, Base, TypeOK, RequestOK, Request, NoRequest
  <2>4. created' \in Times /\ row' \in [Contacts -> Row] /\ tasks' \subseteq Contacts
    BY <1>20, CurrentOK DEF Crash, Base, TypeOK, Write, Running
  <2>5. meta' \in Checkpoint
    BY <1>20, CurrentOK, NilIsCursor
       DEF Crash, Base, TypeOK, RunOK, Run, RequestOK, Checkpoint, Fresh, Write, Running
  <2>6. job' \in [Kinds -> JobRecord]
    BY <1>20, ConstantsAssumption
       DEF Crash, Base, TypeOK, JobOK, RunOK, Run, Waiting, Kinds, JobRecord
  <2>7. past' \in Past
    <3>1. Broken \in SUBSET Contacts
      BY CurrentOK DEF Running, Broken, Base, TypeOK, Past
    <3> QED
      BY <1>20, <3>1, PastOK DEF Crash, Base, TypeOK
  <2> QED
    BY <2>1, <2>2, <2>3, <2>4, <2>5, <2>6, <2>7, TypeOfParts DEF Base
<1>21. ASSUME RequestFails PROVE Base'
  <2>1. RunOK'
    BY <1>21, CurrentOK, NilIsCursor, ConstantsAssumption
       DEF RequestFails, Base, TypeOK, Checkpoint, RunOK, Run, Now, Running, Steps, Idle
  <2>2. JobOK'
    BY <1>21, ConstantsAssumption
       DEF RequestFails, Base, TypeOK, JobOK, RunOK, Run, Waiting, Running, Idle, Kinds
  <2>3. RequestOK'
    BY <1>21, ConstantsAssumption
       DEF RequestFails, Base, TypeOK, RequestOK, Request, NoRequest
  <2>4. created' \in Times /\ row' \in [Contacts -> Row] /\ tasks' \subseteq Contacts
    BY <1>21, CurrentOK DEF RequestFails, Base, TypeOK, Write, Running
  <2>5. meta' \in Checkpoint
    BY <1>21, CurrentOK, NilIsCursor
       DEF RequestFails, Base, TypeOK, RunOK, Run, RequestOK, Checkpoint, Fresh, Write, Running
  <2>6. job' \in [Kinds -> JobRecord]
    BY <1>21, ConstantsAssumption
       DEF RequestFails, Base, TypeOK, JobOK, RunOK, Run, Waiting, Kinds, JobRecord
  <2>7. past' \in Past
    BY <1>21, PastOK DEF RequestFails, Base, TypeOK, RunOK, Run, Past, Write
  <2> QED
    BY <2>1, <2>2, <2>3, <2>4, <2>5, <2>6, <2>7, TypeOfParts DEF Base
<1> QED
  BY <1>1, <1>2, <1>3, <1>4, <1>5, <1>6, <1>7, <1>8, <1>9, <1>10, <1>11,
     <1>12, <1>13, <1>14, <1>15, <1>16, <1>17, <1>18, <1>19, <1>20, <1>21
  DEF Next, Work

\* A step that changes nothing keeps them too.
LEMMA BaseStutter == ASSUME Base, UNCHANGED vars PROVE Base'
  BY DEF vars, Base, TypeOK, RunOK, JobOK, RequestOK, Now

\* Rows, metadata, jobs and the memory of the worker keep their types, for every set of contacts,
\* page size and number of attempts.
THEOREM TypeCorrect == Spec => []TypeOK
<1>1. Base /\ [Next]_vars => Base'
  BY BaseStutter, BaseNext
<1>2. Base => TypeOK
  BY DEF Base
<1> QED
  BY BaseInit, <1>1, <1>2, PTL DEF Spec

-----------------------------------------------------------------------------
(* Rows out of step with their identifiers *)

\* The contact a run is at and the last of its page depend on the page only.
LEMMA SameTodo ==
    ASSUME created' = created, run'.todo = run.todo
    PROVE  Current' = Current /\ Final(run.todo)' = Final(run.todo)
  BY DEF Current, First, Final, Before

Stale == SeenOK /\ StaleHadFailure

\* A step that leaves rows, tries and the page alone
LEMMA StaleFrame ==
    ASSUME Stale, row' = row, run' = run, created' = created, past'.broken = past.broken
    PROVE  Stale'
<1>1. Current' = Current
  BY SameTodo
<1> QED
  BY <1>1 DEF Stale, SeenOK, StaleHadFailure, Now, Settled, Running

\* A step outside the pages of the first phase
LEMMA StaleOutside ==
    ASSUME Stale, row' = row, past.broken \subseteq past'.broken,
           run'.at \notin {"backfill", "resolve", "ask", "clear"},
           Running("resolve") => Current \in past'.broken
    PROVE  Stale'
  BY DEF Stale, SeenOK, StaleHadFailure, Now, Running

\* What the memory of a run holds once it is done with a contact.
LEMMA AdvancedFields ==
    ASSUME run \in Run, run' = Advanced
    PROVE  /\ run'.todo = run.todo \ {Current} /\ run'.cursor = Current
           /\ run'.at = IF run.todo = {Current} THEN "save" ELSE "backfill"
           /\ run'.kind = run.kind /\ run'.phase = run.phase /\ run'.from = run.from
           /\ run'.promo = run.promo /\ run'.seen = run.seen
<1> DEFINE done == run.todo = {Current}
           step == IF done THEN "save" ELSE "backfill"
<1>1. run' = [run EXCEPT !.todo = @ \ {Current}, !.cursor = Current, !.try = 1, !.at = step]
  BY DEF Advanced
<1> HIDE DEF done, step
<1>2. /\ run'.todo = run.todo \ {Current} /\ run'.cursor = Current /\ run'.at = step
      /\ run'.kind = run.kind /\ run'.phase = run.phase /\ run'.from = run.from
      /\ run'.promo = run.promo /\ run'.seen = run.seen
  BY <1>1 DEF Run
<1> QED
  BY <1>2 DEF done, step

\* Every action keeps what is known of rows out of step.
LEMMA StaleNext ==
    ASSUME Base, Stale, Next
    PROVE  Stale'
<1>0. run \in Run /\ row \in [Contacts -> Row] /\ past \in Past
  BY DEF Base, RunOK, TypeOK
<1>1. ASSUME NEW kd \in {"rerun", "resume", "errors"}, Call(kd) PROVE Stale'
  BY <1>1, StaleFrame DEF Call
<1>2. ASSUME AddAfresh PROVE Stale'
  <2>1. past'.broken = past.broken
    BY <1>2, <1>0 DEF AddAfresh, Past
  <2> QED
    BY <1>2, <2>1, StaleFrame DEF AddAfresh
<1>3. ASSUME AddToResume PROVE Stale'
  BY <1>3, StaleFrame DEF AddToResume
<1>4. ASSUME WriteMetadata PROVE Stale'
  <2>1. past'.broken = past.broken
    BY <1>4, <1>0 DEF WriteMetadata, Past
  <2> QED
    BY <1>4, <2>1, StaleFrame DEF WriteMetadata
<1>5. ASSUME RequestFails PROVE Stale'
  <2>1. past'.broken = past.broken
    BY <1>5, <1>0 DEF RequestFails, Past
  <2> QED
    BY <1>5, <2>1, StaleFrame DEF RequestFails
<1>6. ASSUME NEW k \in Kinds, Load(k) PROVE Stale'
  <2>1. past'.broken = past.broken /\ ~Running("resolve") /\ run'.at = "start" /\ row' = row
    BY <1>6, <1>0 DEF Load, Past, Running, Idle
  <2> QED
    BY <2>1, StaleOutside
<1>7. ASSUME Start \/ Save \/ Switch \/ Note \/ Finish PROVE Stale'
  <2>1. past'.broken = past.broken
    BY <1>7, <1>0 DEF Start, Save, Switch, Note, Finish, Write, Past
  <2>2. ~Running("resolve") /\ row' = row
    BY <1>7 DEF Start, Save, Switch, Note, Finish, Running
  <2>3. run'.at \notin {"backfill", "resolve", "ask", "clear"}
    BY <1>7, <1>0 DEF Start, Save, Switch, Note, Finish, Run
  <2> QED
    BY <2>1, <2>2, <2>3, StaleOutside
<1>8. ASSUME QueuePage PROVE Stale'
  <2>1. past'.broken = past.broken
    BY <1>8, <1>0 DEF QueuePage, Past
  <2>2. ~Running("resolve") /\ row' = row
    BY <1>8 DEF QueuePage, Running
  <2>3. run'.at \notin {"backfill", "resolve", "ask", "clear"}
    BY <1>8, <1>0 DEF QueuePage, Run
  <2> QED
    BY <2>1, <2>2, <2>3, StaleOutside
<1>9. ASSUME Complete PROVE Stale'
  BY <1>9, StaleOutside DEF Complete, Running, Idle
<1>10. ASSUME Throw \/ Crash PROVE Stale'
  <2>1. past'.broken = Broken /\ run' = Idle /\ row' = row
    BY <1>10, <1>0 DEF Throw, Crash, Past
  <2> QED
    BY <2>1, StaleOutside DEF Broken, Idle
<1>11. ASSUME ReadPage PROVE Stale'
  <2> DEFINE page == Page(Scope, run.cursor)
             seen == [c \in page |-> row[c]]
  <2>1. run' = (IF page = {} THEN Switched ELSE Taken(page)) /\ row' = row /\ past' = past
    BY <1>11 DEF ReadPage
  <2>2. Taken(page) = [run EXCEPT !.at = "backfill", !.todo = page, !.seen = seen, !.try = 1]
    BY DEF Taken
  <2>3. page \subseteq Contacts
    <3>1. Scope \in SUBSET Contacts /\ run.cursor \in Cursor
      BY <1>0 DEF Scope, Run
    <3> QED
      BY <3>1, PageOfContacts
  <2>4. \A c \in page : seen[c] = row[c]
    OBVIOUS
  <2>5. ~Running("resolve") /\ run.at = "page"
    BY <1>11 DEF ReadPage, Running
  <2> HIDE DEF page, seen
  <2>6. CASE page = {}
    <3>1. run'.at = "switch"
      BY <2>1, <2>6, <1>0 DEF Switched, Run
    <3> QED
      BY <3>1, <2>1, <2>5, StaleOutside
  <2>7. CASE page # {}
    <3>1. run'.at = "backfill" /\ run'.todo = page /\ run'.seen = seen
      BY <2>1, <2>2, <2>7, <1>0 DEF Run
    <3>2. \A c \in Contacts :
            row[c].status = "resolved" /\ row[c].used # row[c].extracted => c \in past.broken
      BY <2>5 DEF Stale, StaleHadFailure
    <3>3. StaleHadFailure'
      BY <3>2, <2>1 DEF StaleHadFailure
    <3>4. SeenOK'
      BY <3>1, <3>2, <2>1, <2>3, <2>4 DEF SeenOK, Now, Settled
    <3> QED
      BY <3>3, <3>4 DEF Stale
  <2> QED
    BY <2>6, <2>7
<1>12. ASSUME Now PROVE Current \in run.todo /\ Current \in Contacts
  BY <1>12, CurrentOK DEF Base, RunOK, Now
<1>13. ASSUME Backfill PROVE Stale'
  <2>1. /\ run' = [run EXCEPT !.at = IF Settled(Current) THEN "clear" ELSE "resolve"]
        /\ row' = [row EXCEPT ![Current].extracted = "new"]
        /\ run.at = "backfill" /\ run.kind # Nil /\ created' = created /\ past' = past
    BY <1>13 DEF Backfill, Running
  <2>2. Current \in run.todo /\ Current \in Contacts
    BY <2>1, <1>12 DEF Now
  <2>3. /\ run'.at = IF Settled(Current) THEN "clear" ELSE "resolve"
        /\ run'.kind = run.kind /\ run'.todo = run.todo /\ run'.seen = run.seen
    BY <2>1, <1>0 DEF Run
  <2>4. Current' = Current /\ \A c : Settled(c)' <=> Settled(c)
    BY <2>1, <2>3, SameTodo DEF Settled
  <2>5. \A c \in Contacts : /\ row'[c].status = row[c].status /\ row'[c].used = row[c].used
                            /\ c # Current => row'[c].extracted = row[c].extracted
                            /\ c = Current => row'[c].extracted = "new"
    BY <2>1, <1>0 DEF Row
  <2>6. run.todo \subseteq Contacts
    BY <1>0 DEF Run
  <2>7. SeenOK'
    BY <2>1, <2>2, <2>3, <2>4, <2>5, <2>6 DEF Stale, SeenOK, Now
  <2>8. StaleHadFailure'
    BY <2>1, <2>2, <2>3, <2>4, <2>5, <2>6 DEF Stale, SeenOK, StaleHadFailure, Now, Running
  <2> QED
    BY <2>7, <2>8 DEF Stale
<1>14. ASSUME NEW o \in Outcomes, Resolve(o) PROVE Stale'
  <2>1. /\ run' = [run EXCEPT !.at = IF o = "conflict" THEN "ask" ELSE "clear"]
        /\ row' = [row EXCEPT ![Current].status = o, ![Current].used = row[Current].extracted]
        /\ run.at = "resolve" /\ run.kind # Nil /\ created' = created /\ past' = past
    BY <1>14 DEF Resolve, Running
  <2>2. Current \in run.todo /\ Current \in Contacts
    BY <2>1, <1>12 DEF Now
  <2>3. /\ run'.at = IF o = "conflict" THEN "ask" ELSE "clear"
        /\ run'.kind = run.kind /\ run'.todo = run.todo /\ run'.seen = run.seen
    BY <2>1, <1>0 DEF Run
  <2>4. Current' = Current /\ \A c : Settled(c)' <=> Settled(c)
    BY <2>1, <2>3, SameTodo DEF Settled
  <2>5. \A c \in Contacts : /\ row'[c].extracted = row[c].extracted
                            /\ c # Current => row'[c] = row[c]
                            /\ c = Current => row'[c].used = row[c].extracted
    BY <2>1, <1>0 DEF Row
  <2>6. run.todo \subseteq Contacts
    BY <1>0 DEF Run
  <2>7. SeenOK'
    BY <2>1, <2>2, <2>3, <2>4, <2>5, <2>6 DEF Stale, SeenOK, Now
  <2>8. StaleHadFailure'
    BY <2>1, <2>2, <2>3, <2>4, <2>5, <2>6 DEF Stale, SeenOK, StaleHadFailure, Now, Running
  <2> QED
    BY <2>7, <2>8 DEF Stale
<1>15. ASSUME Ask PROVE Stale'
  <2>1. run.at = "ask" /\ run' = [run EXCEPT !.at = "clear"] /\ UNCHANGED <<created, row, past>>
    BY <1>15 DEF Ask, Running
  <2>2. run'.at = "clear" /\ run'.todo = run.todo /\ run'.seen = run.seen
    BY <2>1, <1>0 DEF Run
  <2>3. Current' = Current /\ \A c : Settled(c)' <=> Settled(c)
    BY <2>1, <2>2, SameTodo DEF Settled
  <2> QED
    BY <2>1, <2>2, <2>3 DEF Stale, SeenOK, StaleHadFailure, Now, Running
<1>16. ASSUME Clear \/ FailTry PROVE Stale'
  <2>1. PICK f \in {"failed", "resolved"} : row' = [row EXCEPT ![Current].failure = f]
    BY <1>16 DEF Clear, FailTry
  <2>2. Now
    BY <1>16 DEF Clear, FailTry, Running, Now
  <2>3. \A c \in Contacts : /\ row'[c].status = row[c].status /\ row'[c].used = row[c].used
                            /\ row'[c].extracted = row[c].extracted
    BY <2>1, <2>2, <1>0, <1>12 DEF Row
  <2>4. run' = Advanced \/ run' = [run EXCEPT !.at = "backfill", !.try = run.try + 1]
    BY <1>16 DEF Clear, FailTry
  <2>5. /\ run'.at \in {"backfill", "save"} /\ run'.seen = run.seen
        /\ run'.todo \subseteq run.todo
    <3>1. CASE run' = Advanced
      BY <3>1, <1>0, AdvancedFields
    <3>2. CASE run' = [run EXCEPT !.at = "backfill", !.try = run.try + 1]
      BY <3>2, <1>0 DEF Run
    <3> QED
      BY <2>4, <3>1, <3>2
  <2>6. past'.broken = IF Running("resolve") THEN past.broken \cup {Current} ELSE past.broken
    BY <1>16, <1>0 DEF Clear, FailTry, Past, Broken, Running
  <2>7. \A c : Settled(c)' <=> Settled(c)
    BY <2>5 DEF Settled
  <2>8. run.todo \subseteq Contacts
    BY <1>0 DEF Run
  <2>9. SeenOK'
    BY <2>2, <2>3, <2>5, <2>6, <2>7, <2>8 DEF Stale, SeenOK, Now
  <2>10. StaleHadFailure'
    BY <2>3, <2>6 DEF Stale, StaleHadFailure
  <2> QED
    BY <2>9, <2>10 DEF Stale
<1> QED
  BY <1>1, <1>2, <1>3, <1>4, <1>5, <1>6, <1>7, <1>8, <1>9, <1>10, <1>11, <1>13, <1>14, <1>15,
     <1>16 DEF Next, Work

\* Ingestion leaves every resolved row in step.
LEMMA StaleInit == Init => Stale
<1>1. ASSUME Init PROVE StaleHadFailure
  BY <1>1, ConstantsAssumption DEF Init, StaleHadFailure
<1>2. ASSUME Init PROVE SeenOK
  BY <1>2 DEF Init, SeenOK, Idle, Now
<1> QED
  BY <1>1, <1>2 DEF Stale

\* A contact resolved by identifiers that its row no longer has had a try that broke between
\* the two writes of processOneBronzeContact (promotion-bronze-silver.ts:781-814).
THEOREM StaleExplained == Spec => []StaleHadFailure
<1>1. (Base /\ Stale) /\ [Next]_vars => (Base /\ Stale)'
  <2>1. ASSUME Base, Stale, UNCHANGED vars PROVE Base' /\ Stale'
    BY <2>1, BaseStutter, StaleFrame DEF vars
  <2> QED
    BY <2>1, BaseNext, StaleNext
<1>2. Stale => StaleHadFailure
  BY DEF Stale
<1> QED
  BY BaseInit, StaleInit, <1>1, <1>2, PTL DEF Spec

-----------------------------------------------------------------------------
(* A full run serves all *)

Serves == MetaOK /\ DoneOK /\ FullOK

\* A step that changes no row and forgets nothing
Grows ==
    /\ created' = created /\ row' = row /\ tasks \subseteq tasks'
    /\ past.judged \subseteq past'.judged /\ past.queued \subseteq past'.queued

\* The types that the rest of the proof uses.
LEMMA Cursors ==
    ASSUME Base
    PROVE  /\ CreatedOK /\ Nil \in Cursor /\ Contacts \subseteq Cursor
           /\ meta.cursor \in Cursor /\ meta.promo \in Cursor
           /\ run.from \in Cursor /\ run.cursor \in Cursor /\ run.promo \in Cursor
           /\ run.todo \in SUBSET Contacts /\ run \in Run /\ past \in Past
           /\ row \in [Contacts -> Row]
           /\ \A c \in Contacts : row[c] \in Row
  BY Created, NilIsCursor DEF Base, TypeOK, RunOK, Run, Checkpoint

\* A cursor stays covered while what is behind it stays served.
LEMMA CoveredKeep ==
    ASSUME CreatedOK, created' = created, NEW k \in Cursor, Covered(k),
           \A c \in Contacts \ Due(k) : Served(c) => Served(c)'
    PROVE  Covered(k)'
<1>1. Due(k)' = Due(k) /\ (Ends(k)' <=> Ends(k))
  BY Fixed
<1> QED
  BY <1>1 DEF Covered

\* A promotion cursor stays right while no status changes.
LEMMA PromotedKeep ==
    ASSUME CreatedOK, created' = created, NEW k \in Cursor, Promoted(k),
           \A c \in Contacts : row'[c].status = row[c].status, past.queued \subseteq past'.queued
    PROVE  Promoted(k)'
<1>1. \A c \in Contacts : After(c, k)' <=> After(c, k)
  BY Fixed
<1> QED
  BY <1>1 DEF Promoted

\* A step that only grows keeps every contact served and queued.
LEMMA Grown ==
    ASSUME Base, Grows
    PROVE  /\ \A c \in Contacts : Served(c) => Served(c)'
           /\ \A k \in Cursor : (Covered(k) => Covered(k)') /\ (Promoted(k) => Promoted(k)')
           /\ (AllServed => AllServed') /\ (AllPromoted => AllPromoted')
<1>1. \A c \in Contacts : Served(c) => Served(c)'
  BY DEF Served, Grows
<1>2. \A k \in Cursor : (Covered(k) => Covered(k)') /\ (Promoted(k) => Promoted(k)')
  <2>1. \A k \in Cursor : Covered(k) => Covered(k)'
    BY <1>1, Cursors, CoveredKeep DEF Grows
  <2>2. \A k \in Cursor : Promoted(k) => Promoted(k)'
    BY Cursors, PromotedKeep DEF Grows
  <2> QED
    BY <2>1, <2>2
<1>3. (AllServed => AllServed') /\ (AllPromoted => AllPromoted')
  BY <1>1 DEF AllServed, AllPromoted, Grows
<1> QED
  BY <1>1, <1>2, <1>3

\* ... and what the metadata stand for,
LEMMA MetaGrown ==
    ASSUME Base, Grows, MetaOK, meta' = meta
    PROVE  MetaOK'
<1>1. Ahead(Nil)' = Ahead(Nil)
  BY Cursors, Fixed DEF Grows
<1> QED
  BY <1>1, Cursors, Grown DEF MetaOK

\* ... and what a finished job has done,
LEMMA DoneGrown ==
    ASSUME Base, Grows, DoneOK, job'["full"].state = "done" => job["full"].state = "done"
    PROVE  DoneOK'
  BY Grown DEF DoneOK

\* Metadata that say nothing are right: a run from the start that ends reads every contact.
LEMMA FreshOK ==
    ASSUME CreatedOK, created' = created, meta' = Fresh
    PROVE  MetaOK'
<1>1. Nil \in Ahead(Nil) /\ (Ends(Nil) => Contacts \subseteq Due(Nil))
  BY NilIsCursor, AheadFacts, AllDue
<1>2. Ahead(Nil)' = Ahead(Nil) /\ Due(Nil)' = Due(Nil) /\ (Ends(Nil)' <=> Ends(Nil))
  BY NilIsCursor, Fixed
<1>3. meta'.cursor = Nil /\ meta'.phase = "resolve"
  BY DEF Fresh
<1>4. Covered(Nil)'
  BY <1>1, <1>2 DEF Covered
<1> QED
  BY <1>1, <1>2, <1>3, <1>4 DEF MetaOK

\* What PageOK says of where a run came from is kept while the page is.
LEMMA PageGrown ==
    ASSUME Base, Grows, PageOK, Now, run'.todo = run.todo, run'.from = run.from,
           meta'.cursor = meta.cursor, run'.at = "clear" => run.at = "clear"
    PROVE  PageOK'
<1> DEFINE last == Final(run.todo)
<1>1. last \in Cursor /\ run.todo # {} /\ Current' = Current /\ Current \in Contacts
  BY Cursors, CurrentOK, SameTodo DEF Base, RunOK, Now, Grows
<1>2. Final(run.todo)' = last
  BY SameTodo DEF Grows
<1>3. /\ Ahead(run.from)' = Ahead(run.from) /\ Due(run.from)' = Due(run.from)
      /\ Ahead(meta.cursor)' = Ahead(meta.cursor) /\ Due(meta.cursor)' = Due(meta.cursor)
      /\ Due(Final(run.todo))' = Due(last) /\ (Ends(Final(run.todo))' <=> Ends(last))
  BY <1>1, <1>2, Cursors, Fixed DEF Grows
<1>4. \A c \in Contacts : Served(c) => Served(c)'
  BY Grown
<1> HIDE DEF last
<1>5. last \in Ahead(run.from) /\ last \in Ahead(meta.cursor)
      /\ run.todo \subseteq Due(run.from) /\ run.todo \subseteq Due(meta.cursor)
      /\ (Ends(last) => \A c \in Contacts \ (run.todo \cup Due(last)) : Served(c))
      /\ (run.at = "clear" /\ row[Current].status = "conflict" => Current \in tasks)
  BY DEF PageOK, last
<1> QED
  BY <1>1, <1>2, <1>3, <1>4, <1>5 DEF PageOK, Grows

\* ... and what a full run remembers.
LEMMA FullGrown ==
    ASSUME Base, Grows, FullOK, run' = run, meta' = meta
    PROVE  FullOK'
<1> SUFFICES ASSUME run.kind = "full" PROVE FullOK'
  BY DEF FullOK
<1>1. /\ Ahead(Nil)' = Ahead(Nil) /\ Ahead(run.from)' = Ahead(run.from)
      /\ Ahead(meta.cursor)' = Ahead(meta.cursor)
  BY Cursors, Fixed DEF Grows
<1>2. /\ Covered(run.from) => Covered(run.from)'
      /\ Covered(run.cursor) => Covered(run.cursor)'
      /\ Promoted(run.promo) => Promoted(run.promo)'
  BY Cursors, Grown
<1>3. Now => PageOK'
  BY PageGrown DEF FullOK
<1>4. run.at = "note" => Promoted(Final(run.todo))'
  <2> SUFFICES ASSUME run.at = "note" PROVE Promoted(Final(run.todo))'
    OBVIOUS
  <2>1. Final(run.todo)' = Final(run.todo) /\ Final(run.todo) \in Cursor
    BY SameTodo, CurrentOK, Cursors DEF Grows, Base, RunOK
  <2>2. Promoted(Final(run.todo))
    BY DEF FullOK
  <2> QED
    BY <2>1, <2>2, Grown
<1>5. (AllServed => AllServed') /\ (AllPromoted => AllPromoted')
  BY Grown
<1> QED
  BY <1>1, <1>2, <1>3, <1>4, <1>5 DEF FullOK, Now

\* A step of a run that may change the row of the contact it is at
Touches ==
    /\ Now /\ created' = created /\ meta' = meta /\ tasks \subseteq tasks'
    /\ \A c \in Contacts : c # Current => row'[c] = row[c]
    /\ past.judged \subseteq past'.judged

\* Touching the row of a contact that is still due leaves the two cursors right.
LEMMA Touched ==
    ASSUME Base, MetaOK, FullOK, run.kind = "full", Touches
    PROVE  /\ MetaOK' /\ Covered(run.from) /\ meta'.phase = "resolve"
           /\ run'.from = run.from => Covered(run.from)'
           /\ \A c \in Contacts : c # Current /\ Served(c) => Served(c)'
<1>1. /\ run.at \in {"backfill", "resolve", "ask", "clear"} /\ run.phase = "resolve"
      /\ run.todo # {} /\ PageOK /\ meta.phase = "resolve"
      /\ Covered(run.from) /\ Covered(meta.cursor)
  BY DEF Touches, Now, Base, RunOK, FullOK, MetaOK
<1>2. Current \in run.todo /\ Current \in Due(run.from) /\ Current \in Due(meta.cursor)
  BY <1>1, CurrentOK DEF PageOK
<1>3. \A c \in Contacts : c # Current /\ Served(c) => Served(c)'
  BY DEF Served, Touches
<1>4. Covered(meta.cursor)'
  <2>1. meta'.cursor = meta.cursor
    BY DEF Touches
  <2>2. \A c \in Contacts \ Due(meta.cursor) : Served(c) => Served(c)'
    BY <1>2, <1>3
  <2>3. \A k \in Cursor : k = meta.cursor => Covered(k)'
    BY <1>1, <2>2, Cursors, CoveredKeep DEF Touches
  <2> QED
    BY <2>1, <2>3, Cursors
<1>5. run'.from = run.from => Covered(run.from)'
  <2>2. \A c \in Contacts \ Due(run.from) : Served(c) => Served(c)'
    BY <1>2, <1>3
  <2>3. \A k \in Cursor : k = run.from => Covered(k)'
    BY <1>1, <2>2, Cursors, CoveredKeep DEF Touches
  <2> QED
    BY <2>3, Cursors
<1>6. MetaOK'
  <2>1. Ahead(Nil)' = Ahead(Nil) /\ meta'.cursor = meta.cursor /\ meta'.phase = "resolve"
    BY <1>1, Cursors, Fixed DEF Touches
  <2> QED
    BY <1>4, <2>1 DEF MetaOK
<1> QED
  BY <1>1, <1>3, <1>5, <1>6 DEF Touches

\* The run stays at its contact.
LEMMA TouchedPage ==
    ASSUME Base, MetaOK, FullOK, run.kind = "full", Touches,
           run'.todo = run.todo, run'.from = run.from,
           run'.at = "clear" /\ row'[Current].status = "conflict" => Current \in tasks'
    PROVE  PageOK'
<1> DEFINE last == Final(run.todo)
<1>1. PageOK /\ run.todo # {} /\ created' = created /\ meta'.cursor = meta.cursor
  BY DEF Touches, Now, Base, RunOK, FullOK
<1>2. /\ Current \in run.todo /\ last \in Cursor /\ Current' = Current
      /\ Final(run.todo)' = last
  BY <1>1, CurrentOK, Cursors, SameTodo
<1>3. /\ Ahead(run.from)' = Ahead(run.from) /\ Due(run.from)' = Due(run.from)
      /\ Ahead(meta.cursor)' = Ahead(meta.cursor) /\ Due(meta.cursor)' = Due(meta.cursor)
      /\ Due(Final(run.todo))' = Due(last) /\ (Ends(Final(run.todo))' <=> Ends(last))
  BY <1>1, <1>2, Cursors, Fixed
<1>4. \A c \in Contacts : c # Current /\ Served(c) => Served(c)'
  BY Touched
<1>5. /\ last \in Ahead(run.from) /\ last \in Ahead(meta.cursor)
      /\ run.todo \subseteq Due(run.from) /\ run.todo \subseteq Due(meta.cursor)
      /\ Ends(last) => \A c \in Contacts \ (run.todo \cup Due(last)) : Served(c)
  BY <1>1 DEF PageOK
<1> HIDE DEF last
<1> QED
  BY <1>1, <1>2, <1>3, <1>4, <1>5 DEF PageOK

\* The run is done with its contact.
LEMMA TouchedOn ==
    ASSUME Base, MetaOK, FullOK, run.kind = "full", Touches, run' = Advanced,
           \A c \in Contacts : c = Current => Served(c)'
    PROVE  FullOK'
<1> DEFINE last == Final(run.todo)
<1>1. PageOK /\ run.todo # {} /\ created' = created /\ meta'.cursor = meta.cursor
  BY DEF Touches, Now, Base, RunOK, FullOK
<1>2. /\ Current \in run.todo /\ last \in run.todo /\ last \in Cursor
      /\ \A d \in run.todo : d # last => Before(d, last)
      /\ \A d \in run.todo : d # Current => Before(Current, d)
  BY <1>1, CurrentOK, Cursors
<1>3. /\ run'.todo = run.todo \ {Current} /\ run'.cursor = Current /\ run'.from = run.from
      /\ run'.at = IF run.todo = {Current} THEN "save" ELSE "backfill"
      /\ run'.kind = "full" /\ run'.phase = "resolve" /\ run.phase = "resolve"
  BY Cursors, AdvancedFields DEF Touches, Now, Base, RunOK
<1>4. /\ \A c \in Contacts : c # Current /\ Served(c) => Served(c)'
      /\ Covered(run.from)' /\ meta'.phase = "resolve"
  BY <1>3, Touched
<1>5. /\ last \in Ahead(run.from) /\ last \in Ahead(meta.cursor)
      /\ run.todo \subseteq Due(run.from) /\ run.todo \subseteq Due(meta.cursor)
      /\ Ends(last) => \A c \in Contacts \ (run.todo \cup Due(last)) : Served(c)
  BY <1>1 DEF PageOK
<1>6. /\ Ahead(run.from)' = Ahead(run.from) /\ Due(run.from)' = Due(run.from)
      /\ Ahead(meta.cursor)' = Ahead(meta.cursor) /\ Due(meta.cursor)' = Due(meta.cursor)
      /\ Ahead(Nil)' = Ahead(Nil)
      /\ \A k \in Cursor : Due(k)' = Due(k) /\ (Ends(k)' <=> Ends(k))
  BY <1>1, <1>3, Cursors, Fixed
<1>7. run.from \in Ahead(Nil)
  BY DEF FullOK
<1>8. \A c \in Contacts \ (run'.todo \cup Due(last)) :
        Ends(last) => Served(c)'
  BY <1>3, <1>4, <1>5
<1> HIDE DEF last
<1>9. CASE run.todo = {Current}
  <2>1. last = Current /\ run'.todo = {} /\ run'.at = "save"
    BY <1>9, <1>2, <1>3
  <2>2. Covered(run.cursor)'
    BY <1>2, <1>3, <1>6, <1>8, <2>1 DEF Covered
  <2> QED
    BY <1>3, <1>4, <1>5, <1>6, <1>7, <2>1, <2>2 DEF FullOK, Now
<1>10. CASE run.todo # {Current}
  <2>1. run'.todo # {} /\ run'.todo \in SUBSET Contacts
    BY <1>10, <1>2, <1>3, Cursors
  <2>2. last # Current
    BY <1>10, <1>2, Cursors, Order
  <2>3. Final(run'.todo) = last
    <3>1. last \in run'.todo /\ \A d \in run'.todo : d # last => Before(d, last)
      BY <1>2, <1>3, <2>2
    <3>2. CreatedOK
      BY Cursors
    <3> QED
      BY <2>1, <3>1, <3>2, Ordered
  <2>4. Final(run.todo)' = last
    <3>1. Final(run.todo)' = Final(run'.todo)
      BY <1>1, <2>1, Cursors, Fixed
    <3> QED
      BY <2>3, <3>1
  <2>5. run'.at = "backfill" /\ run'.todo \subseteq run.todo
    BY <1>3, <1>10
  <2>6. PageOK'
    BY <1>1, <1>2, <1>3, <1>5, <1>6, <1>8, <2>4, <2>5 DEF PageOK
  <2> QED
    BY <1>3, <1>4, <1>6, <1>7, <2>5, <2>6 DEF FullOK, Now
<1> QED
  BY <1>9, <1>10

\* A run over errors that has not written since the full run was asked for finds nothing done.
LEMMA TouchedFirst ==
    ASSUME Base, Serves, run.kind = "errors", Touches, run'.kind = "errors",
           past.judged = {}, job["full"].state = "waiting", job' = job
    PROVE  Serves'
<1>1. Current \in Contacts
  BY CurrentOK DEF Touches, Now, Base, RunOK
<1>2. \A c \in Contacts : ~Served(c)
  BY DEF Served
<1>3. meta.phase = "resolve"
  BY <1>1, <1>2 DEF Serves, MetaOK, AllServed, Base, TypeOK, Checkpoint
<1>4. \A k \in Cursor : k = meta.cursor => Covered(k)'
  BY <1>2, <1>3, Cursors, CoveredKeep DEF Touches, Serves, MetaOK
<1>5. MetaOK'
  <2>1. /\ Ahead(Nil)' = Ahead(Nil) /\ meta'.cursor = meta.cursor /\ meta'.phase = "resolve"
        /\ Covered(meta.cursor)'
    BY <1>3, <1>4, Cursors, Fixed DEF Touches
  <2> QED
    BY <2>1 DEF Serves, MetaOK
<1>6. DoneOK' /\ FullOK'
  BY DEF DoneOK, FullOK
<1> QED
  BY <1>5, <1>6 DEF Serves

\* The page that was taken, before any of it is done
LEMMA PageTaken ==
    ASSUME Base, FullOK, run.kind = "full", run.at = "page",
           created' = created, row' = row, tasks' = tasks, past' = past, meta' = meta,
           Page(Contacts, run.cursor) # {}, run'.todo = Page(Contacts, run.cursor),
           run'.from = run.from, run'.at = "backfill"
    PROVE  PageOK'
<1> DEFINE k == run.cursor
           page == Page(Contacts, k)
           last == Final(page)
<1>1. /\ k \in Cursor /\ page \in SUBSET Contacts /\ CreatedOK
      /\ k \in Ahead(run.from) /\ k \in Ahead(meta.cursor) /\ Covered(k)
      /\ meta.cursor \in Cursor /\ run.from \in Cursor
  BY Cursors, PageOfContacts DEF FullOK
<1>2. last \in Cursor /\ last \in Ahead(k) /\ Due(k) \subseteq page \cup Due(last)
      /\ (Ends(last) => Ends(k))
  BY <1>1, FinalIsCursor, DueAfterPage
<1>3. /\ Ahead(k) \subseteq Ahead(run.from) /\ page \subseteq Due(run.from)
      /\ Ahead(k) \subseteq Ahead(meta.cursor) /\ page \subseteq Due(meta.cursor)
  BY <1>1, AheadFacts
<1>5. /\ Ahead(run.from)' = Ahead(run.from) /\ Due(run.from)' = Due(run.from)
      /\ Ahead(meta.cursor)' = Ahead(meta.cursor) /\ Due(meta.cursor)' = Due(meta.cursor)
      /\ \A j \in Cursor : Due(j)' = Due(j) /\ (Ends(j)' <=> Ends(j))
  BY <1>1, Fixed
<1>6. \A c \in Contacts : Served(c) => Served(c)'
  BY DEF Served
<1>7. \A c \in Contacts \ (page \cup Due(last)) : Ends(last) => Served(c)
  BY <1>1, <1>2 DEF Covered
<1>8. Final(run.todo)' = last
  <2>1. \A S \in SUBSET Contacts : S # {} => Final(S)' = Final(S)
    BY <1>1, Fixed
  <2> QED
    BY <1>1, <2>1
<1> HIDE DEF k, page, last
<1>9. run'.todo = page
  BY DEF page, k
<1> QED
  BY <1>2, <1>3, <1>5, <1>6, <1>7, <1>8, <1>9 DEF PageOK

\* The contacts of a page of promotions, queued
LEMMA PromotedPage ==
    ASSUME CreatedOK, created' = created, row' = row, NEW k \in Cursor, Promoted(k),
           NEW S, S = {c \in Contacts : row[c].status = "resolved"},
           past'.queued = past.queued \cup Page(S, k)
    PROVE  /\ Page(S, k) = {} => AllPromoted
           /\ \A j \in Cursor : Page(S, k) # {} /\ j = Final(Page(S, k)) => Promoted(j)'
<1>1. Page(S, k) \in SUBSET Contacts /\ S \in SUBSET Contacts
  BY PageFacts
<1>2. ASSUME Page(S, k) = {} PROVE AllPromoted
  BY <1>1, <1>2, PageFacts DEF AllPromoted, Promoted
<1>3. ASSUME Page(S, k) # {}, NEW last \in Cursor, last = Final(Page(S, k)) PROVE Promoted(last)'
  <2> DEFINE page == Page(S, k)
  <2>1. last \in page /\ \A d \in page : d # last => Before(d, last)
    BY <1>1, <1>3, Ordered
  <2>2. page \subseteq Contacts /\ last \in Contacts
    BY <1>1, <2>1
  <2>3. ASSUME NEW c \in Contacts, row[c].status = "resolved", ~After(c, last)
        PROVE  c \in past.queued \cup page
    <3>1. c = last \/ Before(c, last)
      BY <2>2, <2>3, Order
    <3>2. c \in S
      BY <2>3
    <3>3. CASE After(c, k)
      BY <3>1, <3>2, <3>3, <2>1, PageFacts
    <3>4. CASE ~After(c, k)
      BY <3>4, <2>3 DEF Promoted
    <3> QED
      BY <3>3, <3>4
  <2>4. \A c \in Contacts : After(c, last)' <=> After(c, last)
    BY Fixed
  <2> QED
    BY <2>3, <2>4 DEF Promoted
<1> QED
  BY <1>2, <1>3

\* A step that leaves rows and history alone grows.
LEMMA GrowsWhen ==
    ASSUME created' = created, row' = row, tasks \subseteq tasks', past' = past
    PROVE  Grows
  BY DEF Grows

-----------------------------------------------------------------------------
(* The inductive step, action by action *)

Whole == HalfwayOK /\ ErrorsOK /\ ServesOK

\* A request reads the metadata.
LEMMA WholeCall ==
    ASSUME Base, Whole, NEW kd \in {"rerun", "resume", "errors"}, Call(kd)
    PROVE  Whole'
<1>1. request.kind # "rerun" /\ request'.at = "add"
  BY ConstantsAssumption DEF Call, NoRequest
<1>2. Serves => Serves'
  BY GrowsWhen, MetaGrown, DoneGrown, FullGrown DEF Call, Serves
<1> QED
  BY <1>1, <1>2 DEF Whole, HalfwayOK, ErrorsOK, ServesOK, Serves, Halfway, Sound, Call

\* re-promote adds its job, and a new full run is asked for.
LEMMA WholeAddAfresh ==
    ASSUME Base, Whole, AddAfresh
    PROVE  Whole'
<1>1. request \in Request /\ request.kind = "rerun" /\ request.at = "add" /\ ~request.added
  BY DEF AddAfresh, Base, RequestOK
<1>2. CASE job["full"].state \in {"waiting", "active"}
  <2>1. /\ request' = [request EXCEPT !.at = "write"]
        /\ UNCHANGED <<created, row, tasks, meta, job, run, past>>
    BY <1>2 DEF AddAfresh
  <2>2. ~Halfway /\ ~Halfway'
    BY <1>1, <2>1 DEF Halfway, Request
  <2>3. Serves => Serves'
    BY <2>1, GrowsWhen, MetaGrown, DoneGrown, FullGrown DEF Serves
  <2> QED
    BY <2>1, <2>2, <2>3 DEF Whole, HalfwayOK, ErrorsOK, ServesOK, Serves, Sound
<1>3. CASE job["full"].state \notin {"waiting", "active"}
  <2>1. /\ job' = [job EXCEPT !["full"] = Waiting]
        /\ request' = [request EXCEPT !.at = "write", !.added = TRUE]
        /\ past' = [past EXCEPT !.judged = {}, !.queued = {}, !.crossed = FALSE, !.shared = FALSE]
    BY <1>3 DEF AddAfresh
  <2>2. job'["full"].state = "waiting"
    BY <2>1 DEF Base, TypeOK, Waiting, Kinds
  <2>3. past'.judged = {}
    BY <2>1, Cursors DEF Past
  <2>4. Halfway'
    BY <1>1, <2>1, RequestTypes DEF Halfway
  <2> QED
    BY <2>2, <2>3, <2>4 DEF Whole, HalfwayOK, ErrorsOK, ServesOK
<1> QED
  BY <1>2, <1>3

\* A request to resume adds its job.
LEMMA WholeAddToResume ==
    ASSUME Base, Whole, AddToResume
    PROVE  Whole'
<1>1. request \in Request /\ request.kind \in {"resume", "errors"} /\ request.kind # "rerun"
  BY DEF AddToResume, Base, RequestOK
<1>2. request'.kind # "rerun"
  <2>1. request' = NoRequest \/ request' = [request EXCEPT !.at = "write", !.added = TRUE]
    BY DEF AddToResume
  <2>2. NoRequest.kind # "rerun"
    BY ConstantsAssumption DEF NoRequest
  <2>3. [request EXCEPT !.at = "write", !.added = TRUE].kind # "rerun"
    BY <1>1, RequestTypes
  <2> QED
    BY <2>1, <2>2, <2>3
<1>3. job'["full"] = job["full"] \/ job'["full"].state = "waiting"
  <2>1. job' = job \/ \E k \in Kinds : job' = [job EXCEPT ![k] = Waiting]
    BY DEF AddToResume, Kinds
  <2> QED
    BY <2>1 DEF Base, TypeOK, Waiting, Kinds
<1>4. UNCHANGED <<created, row, tasks, meta, run, past>>
  BY DEF AddToResume
<1>5. Serves => Serves'
  BY <1>3, <1>4, GrowsWhen, MetaGrown, DoneGrown, FullGrown DEF Serves
<1>6. ~Halfway /\ ~Halfway'
  BY <1>1, <1>2 DEF Halfway
<1> QED
  BY <1>3, <1>4, <1>5, <1>6 DEF Whole, HalfwayOK, ErrorsOK, ServesOK, Serves, Sound

\* A request resets the metadata, or puts back what it has read.
LEMMA WholeWriteMetadata ==
    ASSUME Base, Whole, WriteMetadata
    PROVE  Whole'
<1>1. /\ request' = NoRequest /\ UNCHANGED <<created, row, tasks, job, run, left>>
      /\ past' = [past EXCEPT !.shared = past.shared \/ request.kind = "errors",
                              !.crossed = past.crossed \/ (request.kind = "resume" /\ request.meta # meta)]
      /\ meta' = IF request.kind = "resume" THEN request.meta ELSE Fresh
      /\ request.at = "write"
  BY DEF WriteMetadata
<1>2. ~Halfway'
  BY <1>1, ConstantsAssumption DEF Halfway, NoRequest
<1>3. /\ past'.judged = past.judged /\ past'.queued = past.queued
      /\ past.shared \/ request.kind = "errors" => past'.shared
      /\ past.crossed \/ (request.kind = "resume" /\ request.meta # meta) => past'.crossed
  BY <1>1, Cursors DEF Past
<1>4. Grows
  BY <1>1, <1>3 DEF Grows
<1>5. ErrorsOK'
  BY <1>1, <1>3 DEF Whole, ErrorsOK
<1>6. ASSUME Sound' PROVE Serves'
  <2>1. Sound /\ request.kind # "errors" /\ (request.kind = "resume" => meta' = meta)
    BY <1>1, <1>3, <1>6 DEF Sound
  <2>2. CASE request.kind = "resume"
    <3>1. Serves
      BY <2>1, <2>2 DEF Whole, ServesOK, Serves, Halfway
    <3> QED
      BY <1>1, <1>4, <2>1, <2>2, <3>1, MetaGrown, DoneGrown, FullGrown DEF Serves
  <2>3. CASE Halfway
    <3>1. job'["full"].state = "waiting" /\ run'.kind # "full"
      BY <1>1, <2>1, <2>3, ConstantsAssumption DEF Whole, HalfwayOK, Sound, Base, JobOK, Kinds
    <3>2. meta' = Fresh
      BY <1>1, <2>3 DEF Halfway
    <3> QED
      BY <1>1, <3>1, <3>2, Cursors, FreshOK DEF Serves, DoneOK, FullOK
  <2>4. CASE request.kind # "resume" /\ ~Halfway
    <3>1. meta' = Fresh /\ Serves
      BY <1>1, <2>1, <2>4 DEF Whole, ServesOK, Serves
    <3>2. MetaOK' /\ DoneOK'
      BY <1>1, <1>4, <3>1, Cursors, FreshOK, DoneGrown DEF Serves
    <3>3. FullOK'
      <4> SUFFICES ASSUME run.kind = "full" PROVE FullOK'
        BY <1>1 DEF FullOK
      <4>1. /\ FullOK /\ meta'.phase = "resolve" /\ meta'.cursor = Nil
            /\ run.from \in Ahead(Nil)
        BY <3>1 DEF Serves, FullOK, Fresh
      <4>2. /\ Ahead(Nil)' = Ahead(Nil) /\ Due(Nil)' = Due(Nil)
            /\ Ahead(run.from)' = Ahead(run.from) /\ Due(run.from)' = Due(run.from)
        BY <1>1, Cursors, Fixed
      <4>3. Ahead(run.from) \subseteq Ahead(Nil) /\ Due(run.from) \subseteq Due(Nil)
        BY <4>1, Cursors, AheadFacts
      <4>4. /\ Covered(run.from) => Covered(run.from)'
            /\ Covered(run.cursor) => Covered(run.cursor)'
            /\ Promoted(run.promo) => Promoted(run.promo)'
            /\ AllServed => AllServed' /\ (AllPromoted => AllPromoted')
        BY <1>1, <1>4, Cursors, Grown
      <4>5. run.at = "note" => Promoted(Final(run.todo))'
        <5> SUFFICES ASSUME run.at = "note" PROVE Promoted(Final(run.todo))'
          OBVIOUS
        <5>1. Final(run.todo)' = Final(run.todo) /\ Final(run.todo) \in Cursor
          BY <1>1, SameTodo, CurrentOK, Cursors DEF Base, RunOK
        <5>2. Promoted(Final(run.todo))
          BY <4>1 DEF FullOK
        <5> QED
          BY <5>1, <5>2, <1>4, Grown
      <4>6. Now => PageOK'
        <5> SUFFICES ASSUME Now PROVE PageOK'
          OBVIOUS
        <5> DEFINE last == Final(run.todo)
        <5>1. /\ PageOK /\ run.todo # {} /\ Current' = Current /\ Current \in Contacts
              /\ last \in Cursor /\ Final(run.todo)' = last
          BY <1>1, <4>1, CurrentOK, Cursors, SameTodo DEF FullOK, Base, RunOK, Now
        <5>2. Due(Final(run.todo))' = Due(last) /\ (Ends(Final(run.todo))' <=> Ends(last))
          BY <1>1, <5>1, Cursors, Fixed
        <5>3. \A c \in Contacts : Served(c) => Served(c)'
          BY <1>4, Grown
        <5>4. /\ last \in Ahead(run.from) /\ run.todo \subseteq Due(run.from)
              /\ (Ends(last) => \A c \in Contacts \ (run.todo \cup Due(last)) : Served(c))
              /\ (run.at = "clear" /\ row[Current].status = "conflict" => Current \in tasks)
          BY <5>1 DEF PageOK
        <5> HIDE DEF last
        <5> QED
          BY <1>1, <4>1, <4>2, <4>3, <5>1, <5>2, <5>3, <5>4 DEF PageOK
      <4>7. run.at \in {"page", "save"} => run.cursor \in Ahead(Nil) /\ run.cursor \in Ahead(run.from)
        BY <4>1, <4>3 DEF FullOK
      <4> QED
        BY <1>1, <4>1, <4>2, <4>4, <4>5, <4>6, <4>7 DEF FullOK, Now
    <3> QED
      BY <3>2, <3>3 DEF Serves
  <2> QED
    BY <2>2, <2>3, <2>4
<1> QED
  BY <1>2, <1>5, <1>6 DEF Whole, HalfwayOK, ServesOK, Serves

\* A request ends between its writes.
LEMMA WholeRequestFails ==
    ASSUME Base, Whole, RequestFails
    PROVE  Whole'
<1>1. /\ request' = NoRequest /\ UNCHANGED <<created, row, tasks, meta, job, run>>
      /\ past' = [past EXCEPT !.crossed = past.crossed \/ Halfway]
  BY DEF RequestFails
<1>2. ~Halfway'
  BY <1>1, ConstantsAssumption DEF Halfway, NoRequest
<1>3. /\ past'.judged = past.judged /\ past'.queued = past.queued /\ past'.shared = past.shared
      /\ past.crossed \/ Halfway => past'.crossed
  BY <1>1, Cursors DEF Past
<1>4. Sound' => Sound /\ ~Halfway
  BY <1>3 DEF Sound
<1>5. Serves => Serves'
  <2>1. Grows
    BY <1>1, <1>3 DEF Grows
  <2> QED
    BY <1>1, <2>1, MetaGrown, DoneGrown, FullGrown DEF Serves
<1> QED
  BY <1>1, <1>2, <1>3, <1>4, <1>5 DEF Whole, HalfwayOK, ErrorsOK, ServesOK, Serves

\* The steps of a full run
LEMMA FullStep ==
    ASSUME Base, Whole, run.kind = "full", request' = request, run'.kind # "errors",
           past.crossed => past'.crossed, past.shared => past'.shared,
           Sound /\ ~Halfway /\ Serves => Serves'
    PROVE  Whole'
<1>1. job["full"].state = "active"
  BY ConstantsAssumption DEF Base, JobOK, Kinds
<1>2. (Halfway' <=> Halfway) /\ (Sound' => Sound)
  BY DEF Halfway, Sound
<1> QED
  BY <1>1, <1>2 DEF Whole, HalfwayOK, ErrorsOK, ServesOK, Serves

\* The steps of a run over errors
LEMMA ErrorsStep ==
    ASSUME Base, Whole, run.kind = "errors", request' = request, past'.judged = past.judged,
           job'["full"].state = job["full"].state,
           past.crossed => past'.crossed, past.shared => past'.shared,
           run'.kind = "errors" => run.at # "start" \/ past'.shared,
           ~past'.shared /\ Serves => Serves'
    PROVE  Whole'
<1>1. (Halfway' <=> Halfway) /\ (Sound' => Sound)
  BY DEF Halfway, Sound
<1> QED
  BY <1>1 DEF Whole, HalfwayOK, ErrorsOK, ServesOK, Serves, Sound

\* What a run over errors may do without a word in the metadata
LEMMA ErrorsQuiet ==
    ASSUME Base, Serves, Grows, run'.kind # "full", meta' = meta,
           job'["full"].state = job["full"].state
    PROVE  Serves'
  BY MetaGrown, DoneGrown DEF Serves, FullOK

\* A job is taken and reads the metadata.
LEMMA WholeLoad ==
    ASSUME Base, Whole, NEW k \in Kinds, Load(k)
    PROVE  Whole'
<1>1. /\ run.kind = Nil /\ request' = request /\ job' = [job EXCEPT ![k].state = "active"]
      /\ UNCHANGED <<created, row, tasks, meta>>
      /\ past' = [past EXCEPT !.crossed = past.crossed \/ (k = "full" /\ Halfway)]
  BY DEF Load
<1>2. /\ run'.kind = k /\ run'.at = "start" /\ run'.phase = meta.phase
      /\ run'.from = meta.cursor /\ run'.cursor = meta.cursor /\ run'.promo = meta.promo
  BY DEF Load, Idle
<1>3. /\ past'.judged = past.judged /\ past'.queued = past.queued /\ past'.shared = past.shared
      /\ past.crossed \/ (k = "full" /\ Halfway) => past'.crossed
  BY <1>1, Cursors DEF Past
<1>4. /\ k = "full" => job'["full"].state = "active"
      /\ k # "full" => job'["full"] = job["full"]
  BY <1>1 DEF Base, TypeOK, Kinds
<1>5. Grows
  BY <1>1, <1>3 DEF Grows
<1>6. Halfway' <=> Halfway
  BY <1>1 DEF Halfway
<1>7. HalfwayOK' /\ ErrorsOK'
  BY <1>2, <1>3, <1>4, <1>6 DEF Whole, HalfwayOK, ErrorsOK
<1>8. ASSUME Serves PROVE Serves'
  <2>1. MetaOK'
    BY <1>1, <1>5, <1>8, MetaGrown DEF Serves
  <2>2. DoneOK'
    BY <1>4, <1>5, <1>8, DoneGrown DEF Serves
  <2>3. FullOK'
    <3>1. /\ meta'.cursor = meta.cursor /\ meta'.promo = meta.promo /\ meta'.phase = meta.phase
      BY <1>1
    <3>2. run'.from \in Ahead(Nil)'
      BY <2>1, <3>1, <1>2 DEF MetaOK
    <3>3. /\ run'.phase = "resolve" => Covered(run.from)'
          /\ run'.phase = "promote" => AllServed' /\ Promoted(run.promo)'
      BY <2>1, <3>1, <1>2 DEF MetaOK
    <3> QED
      BY <1>2, <3>2, <3>3 DEF FullOK, Now
  <2> QED
    BY <2>1, <2>2, <2>3 DEF Serves
<1>9. Sound' => Sound
  BY <1>3 DEF Sound
<1> QED
  BY <1>6, <1>7, <1>8, <1>9 DEF Whole, ServesOK, Serves

\* A run over errors that writes the metadata
LEMMA ErrorsWrite ==
    ASSUME Base, Whole, run.kind = "errors", request' = request, job'["full"].state = job["full"].state,
           past'.judged = past.judged, past.crossed => past'.crossed, past'.shared
    PROVE  Whole'
  BY ErrorsStep

\* A run notes that it has begun.
LEMMA WholeStart ==
    ASSUME Base, Whole, Start
    PROVE  Whole'
<1>1. /\ run.at = "start" /\ run.kind \in Kinds
      /\ meta' = [phase |-> run.phase, cursor |-> run.cursor, promo |-> run.promo]
      /\ past' = [past EXCEPT !.shared = past.shared \/ run.kind = "errors"]
      /\ UNCHANGED <<created, row, tasks, job, request>>
      /\ run' = [run EXCEPT !.at = IF run.phase = "resolve" THEN "page" ELSE "promote"]
  BY Cursors DEF Start, Write, Running, Run
<1>2. /\ past'.judged = past.judged /\ past'.queued = past.queued /\ past'.crossed = past.crossed
      /\ past.shared \/ run.kind = "errors" => past'.shared
  BY <1>1, Cursors DEF Past
<1>3. CASE run.kind = "errors"
  BY <1>1, <1>2, <1>3, ErrorsWrite
<1>4. CASE run.kind = "full"
  <2>1. /\ run'.kind = "full" /\ run'.phase = run.phase /\ run'.from = run.from
        /\ run'.cursor = run.cursor /\ run'.promo = run.promo
        /\ run'.at = IF run.phase = "resolve" THEN "page" ELSE "promote"
    BY <1>1, <1>4, Cursors DEF Run
  <2>2. Grows
    BY <1>1, <1>2 DEF Grows
  <2>3. run.phase \in {"resolve", "promote"}
    BY Cursors DEF Run
  <2>4. ASSUME Serves PROVE Serves'
    <3>1. /\ run.cursor = run.from /\ run.from \in Ahead(Nil)
          /\ run.phase = "resolve" => Covered(run.from)
          /\ run.phase = "promote" => AllServed /\ Promoted(run.promo)
      BY <1>1, <1>4, <2>3, <2>4 DEF Serves, FullOK
    <3>2. /\ Ahead(Nil)' = Ahead(Nil) /\ Ahead(run.from)' = Ahead(run.from)
          /\ run.from \in Ahead(run.from)
      BY <1>1, <2>1, Cursors, Fixed, AheadFacts
    <3>3. /\ run.phase = "resolve" => Covered(run.from)' /\ Covered(run.cursor)'
          /\ run.phase = "promote" => AllServed' /\ Promoted(run.promo)'
      BY <2>1, <2>2, <3>1, Cursors, Grown
    <3>4. DoneOK'
      BY <1>1, <2>2, <2>4, DoneGrown DEF Serves
    <3>5. /\ meta'.cursor = run.from /\ meta'.cursor = run'.cursor /\ meta'.phase = run'.phase
          /\ meta'.promo = run'.promo
      BY <1>1, <2>1, <3>1
    <3>6. MetaOK'
      BY <2>1, <3>1, <3>2, <3>3, <3>5 DEF MetaOK
    <3>7. FullOK'
      BY <2>1, <2>3, <3>1, <3>2, <3>3, <3>5 DEF FullOK, Now
    <3> QED
      BY <3>4, <3>6, <3>7 DEF Serves
  <2> QED
    BY <1>1, <1>2, <1>4, <2>1, <2>4, FullStep
<1> QED
  BY <1>1, <1>3, <1>4 DEF Kinds

\* A run takes the next page, or finds none.
LEMMA WholeReadPage ==
    ASSUME Base, Whole, ReadPage
    PROVE  Whole'
<1> DEFINE page == Page(Scope, run.cursor)
<1>1. /\ run.at = "page" /\ run.kind \in Kinds
      /\ UNCHANGED <<created, row, tasks, meta, job, request, past>>
      /\ run' = IF page = {} THEN Switched ELSE Taken(page)
  BY Cursors DEF ReadPage, Running, Run
<1>2. /\ run'.kind = run.kind /\ run'.cursor = run.cursor
      /\ page = {} => /\ run'.at = "switch" /\ run'.phase = "promote" /\ run'.from = run.cursor
                      /\ run'.promo = Nil
      /\ page # {} => /\ run'.at = "backfill" /\ run'.phase = run.phase /\ run'.from = run.from
                      /\ run'.todo = page
  <2> HIDE DEF page
  <2>1. CASE page = {}
    BY <1>1, <2>1, Cursors DEF Switched, Run
  <2>2. CASE page # {}
    BY <1>1, <2>2, Cursors DEF Taken, Run
  <2> QED
    BY <2>1, <2>2
<1>3. Grows
  BY <1>1, GrowsWhen
<1>4. CASE run.kind = "errors"
  <2>1. Serves => Serves'
    BY <1>1, <1>2, <1>3, <1>4, ErrorsQuiet
  <2> QED
    BY <1>1, <1>4, <2>1, ErrorsStep
<1>5. CASE run.kind = "full"
  <2>1. page = Page(Contacts, run.cursor)
    BY <1>5 DEF Scope
  <2> HIDE DEF page
  <2>2. ASSUME Serves PROVE Serves'
    <3>1. MetaOK' /\ DoneOK'
      BY <1>1, <1>3, <2>2, MetaGrown, DoneGrown DEF Serves
    <3>2. /\ run.from \in Ahead(Nil) /\ run.cursor \in Ahead(run.from) /\ Covered(run.cursor)
          /\ meta.phase = "resolve" /\ (run.phase = "resolve" => Covered(run.from)) /\ FullOK
      BY <1>1, <1>5, <2>2 DEF Serves, FullOK
    <3>3. Ahead(Nil)' = Ahead(Nil) /\ Ahead(run.from) \subseteq Ahead(Nil)
      BY <1>1, <3>2, Cursors, Fixed, AheadFacts
    <3>4. CASE page = {}
      <4>1. AllServed
        BY <2>1, <3>2, <3>4, Cursors, DueAfterPage DEF Covered, AllServed
      <4>2. AllServed'
        BY <1>3, <4>1, Grown
      <4>3. FullOK'
        BY <1>2, <3>2, <3>3, <3>4, <4>2 DEF FullOK, Now
      <4> QED
        BY <3>1, <4>3 DEF Serves
    <3>5. CASE page # {}
      <4>1. PageOK'
        BY <1>1, <1>2, <1>5, <2>1, <3>2, <3>5, PageTaken
      <4>2. run.phase = "resolve" => Covered(run.from)'
        BY <1>2, <1>3, <3>2, <3>5, Cursors, Grown
      <4>3. FullOK'
        BY <1>1, <1>2, <3>2, <3>3, <3>5, <4>1, <4>2 DEF FullOK, Now
      <4> QED
        BY <3>1, <4>3 DEF Serves
    <3> QED
      BY <3>4, <3>5
  <2> QED
    BY <1>1, <1>2, <1>5, <2>2, FullStep
<1> QED
  BY <1>1, <1>4, <1>5 DEF Kinds

\* A step at a contact that does not end with it
LEMMA WholeTouch ==
    ASSUME Base, Whole, Touches, run.kind \in Kinds, request' = request, job' = job,
           past'.judged = past.judged, past.crossed => past'.crossed, past.shared => past'.shared,
           run'.todo = run.todo, run'.from = run.from, run'.kind = run.kind, run'.phase = run.phase,
           run'.at \in {"backfill", "resolve", "ask", "clear"},
           run'.at = "clear" /\ row'[Current].status = "conflict" =>
             Current \in tasks'
    PROVE  Whole'
<1>1. CASE run.kind = "errors"
  <2>1. Serves /\ ~past.shared => Serves'
    BY <1>1, TouchedFirst DEF Whole, ErrorsOK, Touches, Now
  <2> QED
    BY <1>1, <2>1, ErrorsStep DEF Touches, Now
<1>2. CASE run.kind = "full"
  <2>1. ASSUME Serves PROVE Serves'
    <3>1. /\ MetaOK' /\ Covered(run.from)' /\ meta'.phase = "resolve"
      BY <1>2, <2>1, Touched DEF Serves
    <3>2. PageOK'
      BY <1>2, <2>1, TouchedPage DEF Serves
    <3>3. DoneOK'
      BY <1>2, ConstantsAssumption DEF DoneOK, Base, JobOK, Kinds
    <3>4. run.from \in Ahead(Nil) /\ Ahead(Nil)' = Ahead(Nil) /\ run.phase = "resolve"
      BY <1>2, <2>1, Cursors, Fixed DEF Serves, FullOK, Touches, Now, Base, RunOK
    <3>5. FullOK'
      BY <1>2, <3>1, <3>2, <3>4 DEF FullOK, Now
    <3> QED
      BY <3>1, <3>3, <3>5 DEF Serves
  <2> QED
    BY <1>2, <2>1, FullStep
<1> QED
  BY <1>1, <1>2 DEF Kinds

\* While a run is at a contact there is one.
LEMMA NowCurrent ==
    ASSUME Base, Now
    PROVE  Current \in run.todo /\ Current \in Contacts /\ row[Current] \in Row
  BY CurrentOK, Cursors DEF Base, RunOK, Now

\* A contact settled by the page was resolved, so it needs no operator.
LEMMA WholeBackfill ==
    ASSUME Base, Stale, Whole, Backfill
    PROVE  Whole'
<1>1. /\ run.at = "backfill" /\ run.kind \in Kinds
      /\ row' = [row EXCEPT ![Current].extracted = "new"]
      /\ run' = [run EXCEPT !.at = IF Settled(Current) THEN "clear" ELSE "resolve"]
      /\ UNCHANGED <<created, tasks, meta, job, request, past>>
  BY Cursors DEF Backfill, Running, Run
<1>2. /\ run'.todo = run.todo /\ run'.from = run.from /\ run'.kind = run.kind
      /\ run'.phase = run.phase /\ run'.at = IF Settled(Current) THEN "clear" ELSE "resolve"
  BY <1>1, Cursors DEF Run
<1>3. Now /\ Current \in Contacts /\ Current \in run.todo /\ row[Current] \in Row
  BY <1>1, NowCurrent DEF Now
<1>4. /\ \A c \in Contacts : c # Current => row'[c] = row[c]
      /\ row'[Current].status = row[Current].status
  BY <1>1, <1>3, Cursors DEF Row
<1>5. Touches
  BY <1>1, <1>3, <1>4 DEF Touches
<1>6. Settled(Current) => row[Current].status = "resolved"
  BY <1>3 DEF Stale, SeenOK
<1> QED
  BY <1>1, <1>2, <1>4, <1>5, <1>6, WholeTouch

\* A resolution may find a conflict, and then an operator is asked.
LEMMA WholeResolve ==
    ASSUME Base, Whole, NEW o \in Outcomes, Resolve(o)
    PROVE  Whole'
<1>1. /\ run.at = "resolve" /\ run.kind \in Kinds
      /\ row' = [row EXCEPT ![Current].status = o, ![Current].used = row[Current].extracted]
      /\ run' = [run EXCEPT !.at = IF o = "conflict" THEN "ask" ELSE "clear"]
      /\ UNCHANGED <<created, tasks, meta, job, request, past>>
  BY Cursors DEF Resolve, Running, Run
<1>2. /\ run'.todo = run.todo /\ run'.from = run.from /\ run'.kind = run.kind
      /\ run'.phase = run.phase /\ run'.at = IF o = "conflict" THEN "ask" ELSE "clear"
  BY <1>1, Cursors DEF Run
<1>3. Now /\ Current \in Contacts /\ row[Current] \in Row
  BY <1>1, NowCurrent DEF Now
<1>4. /\ \A c \in Contacts : c # Current => row'[c] = row[c]
      /\ row'[Current].status = o
  BY <1>1, <1>3, Cursors DEF Row
<1>5. Touches
  BY <1>1, <1>3, <1>4 DEF Touches
<1> QED
  BY <1>1, <1>2, <1>4, <1>5, WholeTouch

\* The operator is asked.
LEMMA WholeAsk ==
    ASSUME Base, Whole, Ask
    PROVE  Whole'
<1>1. /\ run.at = "ask" /\ run.kind \in Kinds
      /\ tasks' = tasks \cup {Current} /\ run' = [run EXCEPT !.at = "clear"]
      /\ UNCHANGED <<created, row, meta, job, request, past>>
  BY Cursors DEF Ask, Running, Run
<1>2. /\ run'.todo = run.todo /\ run'.from = run.from /\ run'.kind = run.kind
      /\ run'.phase = run.phase /\ run'.at = "clear"
  BY <1>1, Cursors DEF Run
<1>3. Touches
  BY <1>1 DEF Touches, Now
<1> QED
  BY <1>1, <1>2, <1>3, WholeTouch

\* The last step at a contact
LEMMA WholeOn ==
    ASSUME Base, Whole, Touches, run.kind \in Kinds, request' = request, job' = job,
           run' = Advanced, past.crossed => past'.crossed, past.shared => past'.shared,
           run.kind = "errors" => past'.judged = past.judged,
           run.kind = "full" /\ Serves => \A c \in Contacts : c = Current => Served(c)'
    PROVE  Whole'
<1>1. run'.kind = run.kind
  BY Cursors, AdvancedFields
<1>2. CASE run.kind = "errors"
  <2>1. Serves /\ ~past.shared => Serves'
    BY <1>1, <1>2, TouchedFirst DEF Whole, ErrorsOK, Touches, Now
  <2> QED
    BY <1>1, <1>2, <2>1, ErrorsStep DEF Touches, Now
<1>3. CASE run.kind = "full"
  <2>1. ASSUME Serves PROVE Serves'
    <3>1. MetaOK' /\ FullOK'
      BY <1>3, <2>1, Touched, TouchedOn DEF Serves
    <3>2. DoneOK'
      BY <1>3, ConstantsAssumption DEF DoneOK, Base, JobOK, Kinds
    <3> QED
      BY <3>1, <3>2 DEF Serves
  <2> QED
    BY <1>1, <1>3, <2>1, FullStep
<1> QED
  BY <1>2, <1>3 DEF Kinds

\* A run is done with a contact it has resolved.
LEMMA WholeClear ==
    ASSUME Base, Whole, Clear
    PROVE  Whole'
<1>1. /\ run.at = "clear" /\ run.kind \in Kinds
      /\ row' = [row EXCEPT ![Current].failure = "resolved"]
      /\ past' = [past EXCEPT !.judged = Judged] /\ run' = Advanced
      /\ UNCHANGED <<created, tasks, meta, job, request>>
  BY Cursors DEF Clear, Running, Run
<1>2. Now /\ Current \in Contacts /\ row[Current] \in Row
  BY <1>1, NowCurrent DEF Now
<1>3. /\ \A c \in Contacts : c # Current => row'[c] = row[c]
      /\ row'[Current].status = row[Current].status
  BY <1>1, <1>2, Cursors DEF Row
<1>4. /\ past'.judged = Judged /\ (past.crossed => past'.crossed)
      /\ past.shared => past'.shared
  BY <1>1, Cursors DEF Past
<1>5. Touches
  BY <1>1, <1>2, <1>3, <1>4 DEF Touches, Judged
<1>6. ASSUME run.kind = "full", Serves
      PROVE  \A c \in Contacts : c = Current => Served(c)'
  <2>1. row[Current].status = "conflict" => Current \in tasks
    BY <1>1, <1>2, <1>6 DEF Serves, FullOK, PageOK
  <2>2. Current \in past'.judged
    BY <1>4, <1>6 DEF Judged
  <2> QED
    BY <1>1, <1>3, <2>1, <2>2 DEF Served
<1>7. run.kind = "errors" => past'.judged = past.judged
  BY <1>4 DEF Judged
<1> QED
  BY <1>1, <1>4, <1>5, <1>6, <1>7, WholeOn

\* A try of a contact fails: there is another, or the contact stays on the list of failures.
LEMMA WholeFailTry ==
    ASSUME Base, Whole, FailTry
    PROVE  Whole'
<1>1. /\ run.kind \in Kinds /\ run.at \in {"backfill", "resolve", "ask", "clear"}
      /\ row' = [row EXCEPT ![Current].failure = "failed"]
      /\ UNCHANGED <<created, tasks, meta, job, request>>
  BY Cursors DEF FailTry, Run
<1>2. Now /\ Current \in Contacts /\ row[Current] \in Row
  BY <1>1, NowCurrent DEF Now
<1>3. /\ \A c \in Contacts : c # Current => row'[c] = row[c]
      /\ row'[Current].failure = "failed"
  BY <1>1, <1>2, Cursors DEF Row
<1>4. CASE run.try < ContactTries
  <2>1. /\ run' = [run EXCEPT !.at = "backfill", !.try = run.try + 1]
        /\ past' = [past EXCEPT !.broken = Broken]
    BY <1>4 DEF FailTry
  <2>2. /\ past'.judged = past.judged /\ (past.crossed => past'.crossed)
        /\ past.shared => past'.shared
    BY <2>1, Cursors DEF Past
  <2>3. /\ run'.todo = run.todo /\ run'.from = run.from /\ run'.kind = run.kind
        /\ run'.phase = run.phase /\ run'.at = "backfill"
    BY <2>1, Cursors DEF Run
  <2>4. Touches
    BY <1>1, <1>2, <1>3, <2>2 DEF Touches
  <2> QED
    BY <1>1, <2>2, <2>3, <2>4, WholeTouch
<1>5. CASE ~(run.try < ContactTries)
  <2>1. run' = Advanced /\ past' = [past EXCEPT !.broken = Broken, !.judged = Judged]
    BY <1>5 DEF FailTry
  <2>2. /\ past'.judged = Judged /\ (past.crossed => past'.crossed)
        /\ past.shared => past'.shared
    BY <2>1, Cursors DEF Past
  <2>3. Touches
    BY <1>1, <1>2, <1>3, <2>2 DEF Touches, Judged
  <2>4. run.kind = "full" => \A c \in Contacts : c = Current => Served(c)'
    BY <1>3, <2>2 DEF Served, Judged
  <2>5. run.kind = "errors" => past'.judged = past.judged
    BY <2>2 DEF Judged
  <2> QED
    BY <1>1, <2>1, <2>2, <2>3, <2>4, <2>5, WholeOn
<1> QED
  BY <1>4, <1>5

\* The cursor of a page that is done goes to the metadata.
LEMMA WholeSave ==
    ASSUME Base, Whole, Save
    PROVE  Whole'
<1>1. /\ run.at = "save" /\ run.kind \in Kinds
      /\ meta' = [meta EXCEPT !.phase = "resolve", !.cursor = run.cursor]
      /\ past' = [past EXCEPT !.shared = past.shared \/ run.kind = "errors"]
      /\ UNCHANGED <<created, row, tasks, job, request>>
      /\ run' = [run EXCEPT !.at = "page", !.seen = Idle.seen]
  BY Cursors DEF Save, Write, Running, Run
<1>2. /\ past'.judged = past.judged /\ past'.queued = past.queued /\ past'.crossed = past.crossed
      /\ past.shared \/ run.kind = "errors" => past'.shared
  BY <1>1, Cursors DEF Past
<1>3. CASE run.kind = "errors"
  BY <1>1, <1>2, <1>3, ErrorsWrite
<1>4. CASE run.kind = "full"
  <2>1. /\ run'.kind = "full" /\ run'.phase = "resolve" /\ run'.from = run.from
        /\ run'.cursor = run.cursor /\ run'.at = "page"
    BY <1>1, <1>4, Cursors DEF Run, Base, RunOK
  <2>2. Grows
    BY <1>1, <1>2 DEF Grows
  <2>3. meta'.phase = "resolve" /\ meta'.cursor = run.cursor
    BY <1>1 DEF Base, TypeOK, Checkpoint
  <2>4. ASSUME Serves PROVE Serves'
    <3>1. /\ run.from \in Ahead(Nil) /\ run.cursor \in Ahead(run.from)
          /\ Covered(run.from) /\ Covered(run.cursor)
      BY <1>1, <1>4, <2>4 DEF Serves, FullOK, Base, RunOK
    <3>2. run.cursor \in Ahead(Nil) /\ run.cursor \in Ahead(run.cursor)
      BY <3>1, Cursors, AheadFacts
    <3>3. /\ Ahead(Nil)' = Ahead(Nil) /\ Ahead(run.from)' = Ahead(run.from)
          /\ Ahead(run.cursor)' = Ahead(run.cursor)
      BY <1>1, <2>1, Cursors, Fixed
    <3>4. Covered(run.from)' /\ Covered(run.cursor)'
      BY <2>1, <2>2, <3>1, Cursors, Grown
    <3>5. DoneOK'
      BY <1>1, <2>2, <2>4, DoneGrown DEF Serves
    <3>6. MetaOK'
      BY <2>1, <2>3, <3>2, <3>3, <3>4 DEF MetaOK
    <3>7. FullOK'
      BY <2>1, <2>3, <3>1, <3>2, <3>3, <3>4 DEF FullOK, Now
    <3> QED
      BY <3>5, <3>6, <3>7 DEF Serves
  <2> QED
    BY <1>1, <1>2, <1>4, <2>1, <2>4, FullStep
<1> QED
  BY <1>1, <1>3, <1>4 DEF Kinds

\* No page is left: promotions come next.
LEMMA WholeSwitch ==
    ASSUME Base, Whole, Switch
    PROVE  Whole'
<1>1. /\ run.at = "switch" /\ run.kind \in Kinds
      /\ meta' = [phase |-> "promote", cursor |-> run.cursor, promo |-> Nil]
      /\ past' = [past EXCEPT !.shared = past.shared \/ run.kind = "errors"]
      /\ UNCHANGED <<created, row, tasks, job, request>>
      /\ run' = [run EXCEPT !.at = "promote"]
  BY Cursors DEF Switch, Write, Running, Run
<1>2. /\ past'.judged = past.judged /\ past'.queued = past.queued /\ past'.crossed = past.crossed
      /\ past.shared \/ run.kind = "errors" => past'.shared
  BY <1>1, Cursors DEF Past
<1>3. CASE run.kind = "errors"
  BY <1>1, <1>2, <1>3, ErrorsWrite
<1>4. CASE run.kind = "full"
  <2>1. /\ run'.kind = "full" /\ run'.phase = "promote" /\ run'.from = run.from
        /\ run'.cursor = run.cursor /\ run'.promo = run.promo /\ run'.at = "promote"
    BY <1>1, <1>4, Cursors DEF Run, Base, RunOK
  <2>2. Grows
    BY <1>1, <1>2 DEF Grows
  <2>3. meta'.phase = "promote" /\ meta'.cursor = run.cursor /\ meta'.promo = Nil
    BY <1>1
  <2>4. ASSUME Serves PROVE Serves'
    <3>1. /\ run.from \in Ahead(Nil) /\ run.cursor = run.from /\ AllServed /\ run.promo = Nil
      BY <1>1, <1>4, <2>4 DEF Serves, FullOK
    <3>2. Ahead(Nil)' = Ahead(Nil)
      BY <1>1, Cursors, Fixed
    <3>3. Promoted(Nil)
      BY Cursors, Order DEF Promoted
    <3>4. Promoted(Nil)' /\ AllServed'
      BY <2>2, <3>1, <3>3, Cursors, Grown
    <3>5. DoneOK'
      BY <1>1, <2>2, <2>4, DoneGrown DEF Serves
    <3>6. MetaOK'
      BY <2>3, <3>1, <3>2, <3>4 DEF MetaOK
    <3>7. FullOK'
      BY <2>1, <3>1, <3>2, <3>4 DEF FullOK, Now
    <3> QED
      BY <3>5, <3>6, <3>7 DEF Serves
  <2> QED
    BY <1>1, <1>2, <1>4, <2>1, <2>4, FullStep
<1> QED
  BY <1>1, <1>3, <1>4 DEF Kinds

\* The metadata are cleared once everything is queued.
LEMMA WholeFinish ==
    ASSUME Base, Whole, Finish
    PROVE  Whole'
<1>1. /\ run.at = "finish" /\ run.kind \in Kinds /\ meta' = Fresh
      /\ past' = [past EXCEPT !.shared = past.shared \/ run.kind = "errors"]
      /\ UNCHANGED <<created, row, tasks, job, request>>
      /\ run' = [run EXCEPT !.at = "end"]
  BY Cursors DEF Finish, Write, Running, Run
<1>2. /\ past'.judged = past.judged /\ past'.queued = past.queued /\ past'.crossed = past.crossed
      /\ past.shared \/ run.kind = "errors" => past'.shared
  BY <1>1, Cursors DEF Past
<1>3. CASE run.kind = "errors"
  BY <1>1, <1>2, <1>3, ErrorsWrite
<1>4. CASE run.kind = "full"
  <2>1. /\ run'.kind = "full" /\ run'.phase = "promote" /\ run'.from = run.from
        /\ run'.cursor = run.cursor /\ run'.at = "end"
    BY <1>1, <1>4, Cursors DEF Run, Base, RunOK
  <2>2. Grows
    BY <1>1, <1>2 DEF Grows
  <2>3. ASSUME Serves PROVE Serves'
    <3>1. /\ run.from \in Ahead(Nil) /\ run.cursor = run.from /\ AllServed /\ AllPromoted
      BY <1>1, <1>4, <2>3 DEF Serves, FullOK
    <3>2. Ahead(Nil)' = Ahead(Nil) /\ AllServed' /\ AllPromoted'
      BY <1>1, <2>2, <3>1, Cursors, Fixed, Grown
    <3>3. MetaOK' /\ DoneOK'
      BY <1>1, <2>2, <2>3, Cursors, FreshOK, DoneGrown DEF Serves
    <3>4. FullOK'
      BY <2>1, <3>1, <3>2 DEF FullOK, Now
    <3> QED
      BY <3>3, <3>4 DEF Serves
  <2> QED
    BY <1>1, <1>2, <1>4, <2>1, <2>3, FullStep
<1> QED
  BY <1>1, <1>3, <1>4 DEF Kinds

\* A page of promotions is queued, or nothing resolved is left.
LEMMA WholeQueuePage ==
    ASSUME Base, Whole, QueuePage
    PROVE  Whole'
<1> DEFINE resolved == {c \in Contacts : row[c].status = "resolved"}
           page == Page(resolved, run.promo)
<1>1. /\ run.at = "promote" /\ run.kind \in Kinds
      /\ UNCHANGED <<created, row, tasks, meta, job, request>>
      /\ page = {} => run' = [run EXCEPT !.at = "finish"] /\ past' = past
      /\ page # {} => /\ run' = [run EXCEPT !.at = "note", !.todo = page]
                      /\ past' = [past EXCEPT !.queued = Queued(page)]
  BY Cursors DEF QueuePage, Running, Run
<1>2. run.promo \in Cursor /\ resolved \in SUBSET Contacts /\ page \in SUBSET Contacts
  BY Cursors, PageFacts
<1> HIDE DEF page
<1>3. /\ past'.judged = past.judged /\ past'.crossed = past.crossed /\ past'.shared = past.shared
      /\ page = {} => past'.queued = past.queued
      /\ page # {} => past'.queued = Queued(page)
  BY <1>1, Cursors DEF Past
<1>4. Grows
  BY <1>1, <1>3 DEF Grows, Queued
<1>5. /\ run'.kind = run.kind /\ run'.phase = run.phase /\ run'.from = run.from
      /\ run'.cursor = run.cursor /\ run'.promo = run.promo
      /\ run'.at = IF page = {} THEN "finish" ELSE "note"
      /\ page # {} => run'.todo = page
  BY <1>1, Cursors DEF Run
<1>6. CASE run.kind = "errors"
  <2>1. Serves => Serves'
    BY <1>1, <1>4, <1>5, <1>6, ErrorsQuiet
  <2> QED
    BY <1>1, <1>3, <1>5, <1>6, <2>1, ErrorsStep
<1>7. CASE run.kind = "full"
  <2>1. ASSUME Serves PROVE Serves'
    <3>1. /\ run.from \in Ahead(Nil) /\ run.cursor = run.from /\ AllServed
          /\ Promoted(run.promo) /\ run.phase = "promote"
      BY <1>1, <1>7, <2>1 DEF Serves, FullOK, Base, RunOK
    <3>2. Ahead(Nil)' = Ahead(Nil) /\ AllServed' /\ Promoted(run.promo)'
      BY <1>1, <1>4, <1>5, <3>1, Cursors, Fixed, Grown
    <3>3. MetaOK' /\ DoneOK'
      BY <1>1, <1>4, <2>1, MetaGrown, DoneGrown DEF Serves
    <3>4. past'.queued = past.queued \cup page
      BY <1>3, <1>7 DEF Queued
    <3>5. /\ page = {} => AllPromoted
          /\ \A j \in Cursor : page # {} /\ j = Final(page) => Promoted(j)'
      BY <1>1, <1>2, <3>1, <3>4, Cursors, PromotedPage DEF page
    <3>6. page = {} => AllPromoted'
      BY <1>4, <3>5, Grown
    <3>7. ASSUME page # {} PROVE Promoted(Final(run.todo))'
      <4>1. CreatedOK /\ Contacts \subseteq Cursor
        BY Cursors
      <4>2. Final(page) \in page
        BY <1>2, <3>7, <4>1, Ordered
      <4>3. Final(run.todo)' = Final(page)
        <5>1. \A T \in SUBSET Contacts : T # {} => Final(T)' = Final(T)
          BY <1>1, <4>1, Fixed
        <5> QED
          BY <1>2, <1>5, <3>7, <5>1
      <4> QED
        BY <1>2, <3>5, <3>7, <4>1, <4>2, <4>3
    <3>8. FullOK'
      BY <1>5, <1>7, <3>1, <3>2, <3>6, <3>7 DEF FullOK, Now
    <3> QED
      BY <3>3, <3>8 DEF Serves
  <2> QED
    BY <1>1, <1>3, <1>5, <1>7, <2>1, FullStep
<1> QED
  BY <1>1, <1>6, <1>7 DEF Kinds

\* The promotion cursor goes to the metadata.
LEMMA WholeNote ==
    ASSUME Base, Whole, Note
    PROVE  Whole'
<1> DEFINE last == Final(run.todo)
<1>1. /\ run.at = "note" /\ run.kind \in Kinds
      /\ meta' = [phase |-> "promote", cursor |-> run.cursor, promo |-> last]
      /\ past' = [past EXCEPT !.shared = past.shared \/ run.kind = "errors"]
      /\ UNCHANGED <<created, row, tasks, job, request>>
      /\ run' = [run EXCEPT !.at = "promote", !.promo = last, !.todo = {}]
  BY Cursors DEF Note, Write, Running, Run
<1>2. /\ past'.judged = past.judged /\ past'.queued = past.queued /\ past'.crossed = past.crossed
      /\ past.shared \/ run.kind = "errors" => past'.shared
  BY <1>1, Cursors DEF Past
<1>3. CASE run.kind = "errors"
  BY <1>1, <1>2, <1>3, ErrorsWrite
<1>4. CASE run.kind = "full"
  <2>0. last \in Cursor
    BY <1>1, CurrentOK, Cursors DEF Base, RunOK
  <2>1. Serves => Promoted(last)
    BY <1>1, <1>4 DEF Serves, FullOK
  <2> HIDE DEF last
  <2>2. /\ run'.kind = "full" /\ run'.phase = "promote" /\ run'.from = run.from
        /\ run'.cursor = run.cursor /\ run'.promo = last /\ run'.at = "promote"
    BY <1>1, <1>4, Cursors DEF Run, Base, RunOK
  <2>3. Grows
    BY <1>1, <1>2 DEF Grows
  <2>4. meta'.phase = "promote" /\ meta'.cursor = run.cursor /\ meta'.promo = last
    BY <1>1
  <2>5. ASSUME Serves PROVE Serves'
    <3>1. /\ run.from \in Ahead(Nil) /\ run.cursor = run.from /\ AllServed
      BY <1>1, <1>4, <2>5 DEF Serves, FullOK
    <3>2. Ahead(Nil)' = Ahead(Nil) /\ AllServed'
      BY <1>1, <2>3, <3>1, Cursors, Fixed, Grown
    <3>3. \A k \in Cursor : k = last => Promoted(k)'
      BY <2>1, <2>3, <2>5, Grown
    <3>4. DoneOK'
      BY <1>1, <2>3, <2>5, DoneGrown DEF Serves
    <3>5. MetaOK'
      BY <2>0, <2>4, <3>1, <3>2, <3>3 DEF MetaOK
    <3>6. FullOK'
      BY <2>0, <2>2, <3>1, <3>2, <3>3 DEF FullOK, Now
    <3> QED
      BY <3>4, <3>5, <3>6 DEF Serves
  <2> QED
    BY <1>1, <1>2, <1>4, <2>2, <2>5, FullStep
<1> QED
  BY <1>1, <1>3, <1>4 DEF Kinds

\* The job ends.
LEMMA WholeComplete ==
    ASSUME Base, Whole, Complete
    PROVE  Whole'
<1>1. /\ run.at = "end" /\ run.kind \in Kinds
      /\ job' = [job EXCEPT ![run.kind].state = "done"]
      /\ UNCHANGED <<created, row, tasks, meta, request, past>> /\ run' = Idle
  BY Cursors DEF Complete, Running, Run
<1>2. run'.kind \notin Kinds
  BY <1>1, ConstantsAssumption DEF Idle
<1>3. Grows
  BY <1>1, GrowsWhen
<1>4. CASE run.kind = "errors"
  <2>1. job'["full"] = job["full"]
    BY <1>1, <1>4 DEF Base, TypeOK, Kinds
  <2>2. Serves => Serves'
    BY <1>1, <1>2, <1>3, <2>1, ErrorsQuiet DEF Kinds
  <2> QED
    BY <1>1, <1>2, <1>4, <2>1, <2>2, ErrorsStep DEF Kinds
<1>5. CASE run.kind = "full"
  <2>1. ASSUME Serves PROVE Serves'
    <3>1. AllServed' /\ AllPromoted'
      BY <1>1, <1>3, <1>5, <2>1, Grown DEF Serves, FullOK
    <3>2. MetaOK'
      BY <1>1, <1>3, <2>1, MetaGrown DEF Serves
    <3> QED
      BY <1>2, <3>1, <3>2 DEF Serves, DoneOK, FullOK, Kinds
  <2> QED
    BY <1>1, <1>2, <1>5, <2>1, FullStep DEF Kinds
<1> QED
  BY <1>1, <1>4, <1>5 DEF Kinds

\* A statement throws: the catch writes what the attempt began with, or where its promotions are.
LEMMA WholeThrow ==
    ASSUME Base, Whole, Throw
    PROVE  Whole'
<1> DEFINE last == Final(run.todo)
           tries == job[run.kind].tries + 1
           promo == IF Running("note") THEN last ELSE run.promo
           shared == past.shared \/ run.kind = "errors"
           ended == [state |-> IF tries < Attempts[run.kind] THEN "waiting" ELSE "failed",
                     tries |-> tries]
<1>1. /\ run.at # "end" /\ run.kind \in Kinds
      /\ meta' = [phase |-> run.phase, cursor |-> run.from, promo |-> promo]
      /\ past' = [past EXCEPT !.shared = shared, !.broken = Broken]
      /\ job' = [job EXCEPT ![run.kind] = ended]
      /\ UNCHANGED <<created, row, tasks, request>> /\ run' = Idle
  BY Cursors DEF Throw, Run
<1>2. run'.kind \notin Kinds
  BY <1>1, ConstantsAssumption DEF Idle
<1>3. /\ past'.judged = past.judged /\ past'.queued = past.queued /\ past'.crossed = past.crossed
      /\ past.shared \/ run.kind = "errors" => past'.shared
  BY <1>1, Cursors DEF Past
<1>4. Grows
  BY <1>1, <1>3 DEF Grows
<1>5. ended.state # "done"
  OBVIOUS
<1> HIDE DEF ended
<1>6. CASE run.kind = "errors"
  <2>1. job'["full"] = job["full"]
    BY <1>1, <1>6 DEF Base, TypeOK, Kinds
  <2> QED
    BY <1>1, <1>3, <1>6, <2>1, ErrorsWrite
<1>7. CASE run.kind = "full"
  <2>1. job'["full"].state # "done"
    BY <1>1, <1>5, <1>7 DEF Base, TypeOK, Kinds
  <2>2. ASSUME Serves PROVE Serves'
    <3>1. /\ run.from \in Ahead(Nil) /\ run.phase \in {"resolve", "promote"}
          /\ run.phase = "resolve" => Covered(run.from)
      BY <1>7, <2>2, Cursors DEF Serves, FullOK, Run
    <3>2. ASSUME run.phase = "promote"
          PROVE  AllServed /\ promo \in Cursor /\ Promoted(promo)
      <4>1. run.at \in {"start", "switch", "promote", "note", "finish"}
        BY <1>1, <3>2, Cursors DEF Base, RunOK, Run, Steps
      <4>2. FullOK
        BY <2>2 DEF Serves
      <4>3. CASE run.at = "note"
        <5>1. promo = last /\ last \in Cursor
          BY <1>7, <4>3, CurrentOK, Cursors, ConstantsAssumption DEF Running, Base, RunOK, Kinds
        <5> QED
          BY <1>7, <4>2, <4>3, <5>1 DEF FullOK
      <4>4. CASE run.at # "note"
        <5>1. promo = run.promo /\ AllServed
          BY <1>7, <3>2, <4>1, <4>2, <4>4 DEF FullOK, Running
        <5>2. run.promo = Nil \/ Promoted(run.promo) \/ AllPromoted
          BY <1>7, <3>2, <4>1, <4>2, <4>4 DEF FullOK
        <5>3. Promoted(Nil) /\ (AllPromoted => \A k \in Cursor : Promoted(k))
          BY Cursors, Order DEF Promoted, AllPromoted
        <5> QED
          BY <5>1, <5>2, <5>3, Cursors
      <4> QED
        BY <4>3, <4>4
    <3> HIDE DEF promo
    <3>3. meta'.phase = run.phase /\ meta'.cursor = run.from /\ meta'.promo = promo
      BY <1>1
    <3>4. Ahead(Nil)' = Ahead(Nil)
      BY <1>1, Cursors, Fixed
    <3>5. \A k \in Cursor : Covered(k) => Covered(k)'
      BY <1>4, Grown
    <3>6. \A k \in Cursor : Promoted(k) => Promoted(k)'
      BY <1>4, Grown
    <3>7. AllServed => AllServed'
      BY <1>4, Grown
    <3>8. meta'.phase = "resolve" => Covered(meta.cursor)'
      BY <3>1, <3>3, <3>5, Cursors
    <3>9. meta'.phase = "promote" => AllServed' /\ Promoted(meta.promo)'
      BY <3>2, <3>3, <3>6, <3>7
    <3>10. MetaOK'
      BY <3>1, <3>3, <3>4, <3>8, <3>9 DEF MetaOK
    <3> QED
      BY <1>2, <2>1, <3>10 DEF Serves, DoneOK, FullOK, Kinds
  <2> QED
    BY <1>1, <1>2, <1>3, <1>7, <2>2, FullStep DEF Kinds
<1> QED
  BY <1>1, <1>6, <1>7 DEF Kinds

\* The worker dies: the metadata are those of its last write.
LEMMA WholeCrash ==
    ASSUME Base, Whole, Crash
    PROVE  Whole'
<1>1. /\ run.kind \in Kinds
      /\ job' = [job EXCEPT ![run.kind].state = "waiting"]
      /\ past' = [past EXCEPT !.broken = Broken]
      /\ UNCHANGED <<created, row, tasks, meta, request>> /\ run' = Idle
  BY Cursors DEF Crash, Run
<1>2. run'.kind \notin Kinds
  BY <1>1, ConstantsAssumption DEF Idle
<1>3. /\ past'.judged = past.judged /\ past'.queued = past.queued /\ past'.crossed = past.crossed
      /\ past'.shared = past.shared
  BY <1>1, Cursors DEF Past
<1>4. Grows
  BY <1>1, <1>3 DEF Grows
<1>5. CASE run.kind = "errors"
  <2>1. job'["full"] = job["full"]
    BY <1>1, <1>5 DEF Base, TypeOK, Kinds
  <2>2. Serves => Serves'
    BY <1>1, <1>2, <1>4, <2>1, ErrorsQuiet DEF Kinds
  <2> QED
    BY <1>1, <1>2, <1>3, <1>5, <2>1, <2>2, ErrorsStep DEF Kinds
<1>6. CASE run.kind = "full"
  <2>1. job'["full"].state # "done"
    BY <1>1, <1>6 DEF Base, TypeOK, Kinds
  <2>2. Serves => Serves'
    BY <1>1, <1>2, <1>4, <2>1, MetaGrown DEF Serves, DoneOK, FullOK, Kinds
  <2> QED
    BY <1>1, <1>2, <1>3, <1>6, <2>2, FullStep DEF Kinds
<1> QED
  BY <1>1, <1>5, <1>6 DEF Kinds


\* Every action keeps the invariant.
LEMMA WholeNext ==
    ASSUME Base, Stale, Whole, Next
    PROVE  Whole'
<1>1. ASSUME NEW kd \in {"rerun", "resume", "errors"}, Call(kd) PROVE Whole'
  BY <1>1, WholeCall
<1>2. ASSUME AddAfresh \/ AddToResume \/ WriteMetadata \/ RequestFails PROVE Whole'
  BY <1>2, WholeAddAfresh, WholeAddToResume, WholeWriteMetadata, WholeRequestFails
<1>3. ASSUME NEW k \in Kinds, Load(k) PROVE Whole'
  BY <1>3, WholeLoad
<1>4. ASSUME Start \/ ReadPage \/ Save \/ Switch PROVE Whole'
  BY <1>4, WholeStart, WholeReadPage, WholeSave, WholeSwitch
<1>5. ASSUME Backfill \/ Ask \/ Clear \/ FailTry PROVE Whole'
  BY <1>5, WholeBackfill, WholeAsk, WholeClear, WholeFailTry
<1>6. ASSUME NEW o \in Outcomes, Resolve(o) PROVE Whole'
  BY <1>6, WholeResolve
<1>7. ASSUME QueuePage \/ Note \/ Finish \/ Complete PROVE Whole'
  BY <1>7, WholeQueuePage, WholeNote, WholeFinish, WholeComplete
<1>8. ASSUME Throw \/ Crash PROVE Whole'
  BY <1>8, WholeThrow, WholeCrash
<1> QED
  BY <1>1, <1>2, <1>3, <1>4, <1>5, <1>6, <1>7, <1>8 DEF Next, Work

\* Before the first request there is nothing to serve.
LEMMA WholeInit == Init => Whole
<1> SUFFICES ASSUME Init PROVE Whole
  OBVIOUS
<1>1. CreatedOK
  BY Created, BaseInit DEF Base
<1>2. MetaOK
  <2>1. Nil \in Ahead(Nil) /\ (Ends(Nil) => Contacts \subseteq Due(Nil))
    BY <1>1, NilIsCursor, AheadFacts, AllDue
  <2>2. meta.cursor = Nil /\ meta.phase = "resolve"
    BY DEF Init, Fresh
  <2> QED
    BY <2>1, <2>2 DEF MetaOK, Covered
<1>3. run.kind = Nil /\ run.kind \notin Kinds /\ request.kind = Nil /\ job["full"].state = "none"
  BY ConstantsAssumption DEF Init, Idle, NoRequest, Kinds
<1>4. DoneOK /\ FullOK /\ ErrorsOK
  BY <1>3 DEF DoneOK, FullOK, ErrorsOK, Kinds
<1>5. HalfwayOK
  BY <1>3, ConstantsAssumption DEF HalfwayOK, Halfway
<1> QED
  BY <1>2, <1>4, <1>5 DEF Whole, ServesOK

\* Whatever the order of the contacts, the pages' cursors cut to milliseconds, the deaths and the
\* statements that throw: a full run that ends, and that nothing crossed, has been done with every
\* contact since it was asked for, has put each conflict before an operator or on the list of
\* failures, and has queued the promotion of whatever is resolved
\* (promotion-bronze-silver.ts:1102-1548).
THEOREM FullRunServes == Spec => []FullRunServesAll
<1>1. (Base /\ Stale /\ Whole) /\ [Next]_vars => (Base /\ Stale /\ Whole)'
  <2>1. ASSUME Base, Stale, Whole, UNCHANGED vars PROVE Base' /\ Stale' /\ Whole'
    <3>1. Base' /\ Stale'
      BY <2>1, BaseStutter, StaleFrame DEF vars
    <3>2. Serves => Serves'
      BY <2>1, GrowsWhen, MetaGrown, DoneGrown, FullGrown DEF vars, Serves
    <3>3. Whole'
      BY <2>1, <3>2 DEF vars, Whole, HalfwayOK, ErrorsOK, ServesOK, Serves, Halfway, Sound
    <3> QED
      BY <3>1, <3>3
  <2> QED
    BY <2>1, BaseNext, StaleNext, WholeNext
<1>2. Base /\ Whole => FullRunServesAll
  <2> SUFFICES ASSUME Base, Whole, Undisturbed PROVE FullRunServesAll
    BY DEF FullRunServesAll
  <2>1. Sound /\ ~Halfway
    BY DEF Undisturbed, Sound, Whole, HalfwayOK
  <2>2. AllServed /\ AllPromoted
    BY <2>1 DEF Whole, ServesOK, DoneOK, Undisturbed
  <2>3. past.judged \subseteq Contacts
    BY Cursors DEF Past
  <2> QED
    BY <2>2, <2>3 DEF FullRunServesAll, AllServed, AllPromoted, Served
<1> QED
  BY BaseInit, StaleInit, WholeInit, <1>1, <1>2, PTL DEF Spec
===============================================================================
