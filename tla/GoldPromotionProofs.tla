------------------------- MODULE GoldPromotionProofs -------------------------
(***************************************************************************)
(* Proofs about GoldPromotion: type correctness, that a promoted company   *)
(* carries its contacts, that records are not merged on a machine's word,  *)
(* and that a forced promotion is one.                                     *)
(***************************************************************************)
EXTENDS GoldPromotion, TLAPS

-----------------------------------------------------------------------------
(* The inductive invariant *)

\* What P2 remembers of a company and its gold company between two awaits stays true:
\* nobody takes back a "from" or "copied".
PromoterInv(j) ==
    LET cui == job[j].cui IN
    /\ job[j].step \in {"read", "look", "upsert", "copy", "mark"}
    /\ job[j].step # "read" => cui \in Cuis
    /\ job[j].step = "copy" => gold[cui].from = j[2]
    /\ job[j].step = "mark" => gold[cui].from # Nil /\ (gold[cui].from = j[2] => gold[cui].copied)
    /\ j[3] = 0 => job[j].force

\* Whether M1 may merge: not while the records are all masters and J1 replaced no identifier.
Disturbed == left.decisions < MaxDecisions \/ \E d \in Companies : silver[d].moved

DeduplicatorInv(j) ==
    /\ job[j].step \in {"read", "find", "insert", "merge"}
    /\ job[j].step \in {"insert", "merge"} => job[j].other \in Companies
    /\ j[1] = "exact" /\ job[j].step = "find" /\ job[j].cui # Nil =>
         Disturbed \/ silver[j[2]].cui = job[j].cui
    /\ j[1] = "exact" /\ job[j].step \in {"insert", "merge"} /\ job[j].auto => Disturbed

JobInv(j) ==
    job[j].state = "live" =>
        /\ job[j].tries < Attempts
        /\ IF j[1] = "promote" THEN PromoterInv(j) ELSE DeduplicatorInv(j)

SilverInv(c) ==
    /\ FirstCui[c] # Nil => silver[c].cui # Nil
    /\ silver[c].gold # Nil =>
         LET g == gold[silver[c].gold] IN g.from # Nil /\ (g.from = c => g.copied)
    /\ ~silver[c].master => Disturbed
    /\ FirstCui[c] # Nil /\ job[<<"promote", c, 0>>].state = "done" =>
         silver[c].gold # Nil \/ \E k \in Cuis : gold[k].from = c

\* The partial unique index.
MastersDiffer ==
    \A c, d \in Companies :
        c # d /\ silver[c].master /\ silver[d].master /\ silver[c].cui = silver[d].cui
            => silver[c].cui = Nil

IInv ==
    /\ TypeOK
    /\ MastersDiffer
    /\ \A c \in Companies : SilverInv(c)
    /\ \A j \in Jobs : JobInv(j)

-----------------------------------------------------------------------------
(* Facts about the rows and the jobs *)

LEMMA JobParts ==
    \A j \in Jobs :
        /\ j = <<j[1], j[2], j[3]>>
        /\ j[1] \in {"promote", "exact", "fuzzy"}
        /\ j[2] \in Companies /\ j[3] \in 0..MaxCopies
<1>1. MaxCopies \in Nat
  BY ConstantsAssumption
<1>2. TAKE j \in Jobs
<1>3. CASE j \in {"promote"} \X Companies \X (0..MaxCopies)
  BY <1>3
<1>4. CASE j \in {"exact", "fuzzy"} \X Companies \X {0}
  BY <1>4, <1>1
<1> QED
  BY <1>3, <1>4 DEF Jobs

LEMMA JobIds ==
    \A c \in Companies :
        /\ <<"exact", c, 0>> \in Jobs /\ <<"fuzzy", c, 0>> \in Jobs
        /\ <<"promote", c, 0>> \in Jobs
        /\ \A n \in 0..MaxCopies : <<"promote", c, n>> \in Jobs
<1>1. 0 \in 0..MaxCopies
  BY ConstantsAssumption
<1> QED
  BY <1>1 DEF Jobs

LEMMA StartedTyped ==
    \A f \in BOOLEAN : /\ Started(f) \in Job /\ Started(f).state = "live" /\ Started(f).tries = 0
                       /\ Started(f).step = "read" /\ Started(f).force = f
<1>1. 0 \in 0..Attempts
  BY ConstantsAssumption
<1>2. TAKE f \in BOOLEAN
<1>3. NoJob \in Job /\ NoJob.tries = 0 /\ NoJob.step = "read"
  BY <1>1 DEF NoJob, Job, Steps
<1> QED
  BY <1>3 DEF Started, Job

LEMMA EndedTyped ==
    \A j \in Jobs : Ended(j) \in Job /\ Ended(j).state # "live"
                      /\ (Ended(j).state = "done" <=> j[3] = 0)
<1>1. 0 \in 0..Attempts
  BY ConstantsAssumption
<1>2. TAKE j \in Jobs
<1>3. NoJob.state = "absent" /\ NoJob \in Job
  BY <1>1 DEF NoJob, Job, Steps
<1>4. /\ [NoJob EXCEPT !.state = "done"].state = "done"
      /\ [NoJob EXCEPT !.state = "done"] \in Job
  BY <1>1 DEF NoJob, Job, Steps
<1> QED
  BY <1>3, <1>4 DEF Ended

LEMMA NoJobTyped == NoJob \in Job /\ NoJob.state = "absent"
  BY ConstantsAssumption DEF NoJob, Job, Steps

LEMMA StepSet ==
    ASSUME NEW y \in Job, NEW s \in Steps
    PROVE  LET x == [y EXCEPT !.step = s] IN
           /\ x \in Job /\ x.state = y.state /\ x.tries = y.tries /\ x.step = s
           /\ x.force = y.force /\ x.cui = y.cui /\ x.other = y.other /\ x.auto = y.auto
<1> DEFINE x == [y EXCEPT !.step = s]
<1>1. x \in Job /\ x.state = y.state /\ x.tries = y.tries /\ x.step = s
  BY DEF Job
<1>2. x.force = y.force /\ x.cui = y.cui /\ x.other = y.other /\ x.auto = y.auto
  BY Zenon DEF Job
<1> QED
  BY <1>1, <1>2

\* A job that a step adds, forced if it is a promotion under the id that addQueueJob derives.
Begun(j) == \E f \in BOOLEAN : job'[j] = Started(f) /\ (j[1] = "promote" /\ j[3] = 0 => f)

LEMMA AnewAdds ==
    ASSUME TypeOK, NEW c \in Companies, NEW f \in BOOLEAN, Free(c) # {}
    PROVE  /\ Anew(job, c, f) \in [Jobs -> Job]
           /\ \A j \in Jobs : Anew(job, c, f)[j] = job[j]
                                \/ (j[1] = "promote" /\ j[3] # 0 /\ Anew(job, c, f)[j] = Started(f))
<1> DEFINE n == CHOOSE m \in Free(c) : TRUE
<1>1. n \in 1..MaxCopies
  <2>1. n \in Free(c)
    OBVIOUS
  <2> QED
    BY <2>1 DEF Free
<1>2. /\ <<"promote", c, n>> \in Jobs
      /\ Anew(job, c, f) = [job EXCEPT ![<<"promote", c, n>>] = Started(f)]
  <2>1. n \in 0..MaxCopies
    BY <1>1, ConstantsAssumption
  <2>2. Anew(job, c, f) = [job EXCEPT ![<<"promote", c, n>>] = Started(f)]
    BY DEF Anew
  <2> HIDE DEF n
  <2> QED
    BY <2>1, <2>2, JobIds
<1> HIDE DEF n
<1>3. \A j \in Jobs : Anew(job, c, f)[j] = job[j] \/ j = <<"promote", c, n>>
  BY <1>2 DEF TypeOK
<1>4. Anew(job, c, f)[<<"promote", c, n>>] = Started(f) /\ n # 0
  BY <1>1, <1>2, ConstantsAssumption DEF TypeOK
<1>5. Anew(job, c, f) \in [Jobs -> Job]
  BY <1>2, StartedTyped DEF TypeOK
<1> QED
  BY <1>3, <1>4, <1>5

LEMMA AddedAdds ==
    ASSUME NEW js \in [Jobs -> Job], NEW i \in Jobs, NEW f \in BOOLEAN
    PROVE  /\ Added(js, i, f) \in [Jobs -> Job]
           /\ \A j \in Jobs : Added(js, i, f)[j] = js[j] \/ (j = i /\ Added(js, i, f)[j] = Started(f))
  BY StartedTyped DEF Added

LEMMA DedupAdds ==
    ASSUME TypeOK, NEW c \in Companies
    PROVE  /\ SendToDedup(job, c) \in [Jobs -> Job]
           /\ \A j \in Jobs : SendToDedup(job, c)[j] = job[j]
                                \/ (j[1] # "promote" /\ SendToDedup(job, c)[j] = Started(FALSE))
<1> DEFINE e == <<"exact", c, 0>>
           z == <<"fuzzy", c, 0>>
           js == Added(job, e, FALSE)
<1>1. e \in Jobs /\ z \in Jobs /\ e[1] = "exact" /\ z[1] = "fuzzy"
  BY JobIds
<1>2. SendToDedup(job, c) = Added(js, z, FALSE)
  BY DEF SendToDedup
<1> HIDE DEF e, z
<1>3. /\ js \in [Jobs -> Job]
      /\ \A j \in Jobs : js[j] = job[j] \/ (j = e /\ js[j] = Started(FALSE))
  BY <1>1, AddedAdds, job \in [Jobs -> Job] DEF TypeOK
<1> HIDE DEF js
<1>4. /\ SendToDedup(job, c) \in [Jobs -> Job]
      /\ \A j \in Jobs : SendToDedup(job, c)[j] = js[j]
                           \/ (j = z /\ SendToDedup(job, c)[j] = Started(FALSE))
  <2>1. /\ Added(js, z, FALSE) \in [Jobs -> Job]
        /\ \A j \in Jobs : Added(js, z, FALSE)[j] = js[j]
                             \/ (j = z /\ Added(js, z, FALSE)[j] = Started(FALSE))
    BY <1>1, <1>3, AddedAdds
  <2> QED
    BY <1>2, <2>1
<1>5. ASSUME NEW j \in Jobs
      PROVE  SendToDedup(job, c)[j] = job[j]
               \/ (j[1] # "promote" /\ SendToDedup(job, c)[j] = Started(FALSE))
  BY <1>1, <1>3, <1>4
<1> QED
  BY <1>4, <1>5

-----------------------------------------------------------------------------
(* What every step keeps *)

\* A gold company stays what it was made of, and its contacts stay.
GoldGrows ==
    \A k \in Cuis :
        /\ gold[k].from # Nil => gold'[k].from = gold[k].from
        /\ gold[k].copied => gold'[k].copied

\* A cui and a merge of a company are not taken back; J1 sets its mark when it replaces a cui.
SilverMoves(c) ==
    /\ silver'[c].cui = silver[c].cui \/ silver[c].cui = Nil \/ Disturbed'
    /\ silver[c].cui # Nil => silver'[c].cui # Nil
    /\ ~silver'[c].master => ~silver[c].master \/ Disturbed'

\* What a company may point to after the step.
Backed(c) ==
    silver'[c].gold # Nil =>
        LET g == gold'[silver'[c].gold] IN g.from # Nil /\ (g.from = c => g.copied)

LEMMA JobKept ==
    ASSUME TypeOK, TypeOK', NEW j \in Jobs, JobInv(j), job'[j] = job[j],
           GoldGrows, Disturbed => Disturbed', SilverMoves(j[2])
    PROVE  JobInv(j)'
<1>1. j[2] \in Companies /\ j[2] # Nil
  BY JobParts, ConstantsAssumption
<1>2. CASE j[1] = "promote"
  BY <1>1, <1>2 DEF JobInv, PromoterInv, GoldGrows
<1>3. CASE j[1] # "promote"
  <2>1. SUFFICES ASSUME job'[j].state = "live" PROVE JobInv(j)'
    BY DEF JobInv
  <2>2. job[j].tries < Attempts /\ DeduplicatorInv(j)
    BY <2>1, <1>3 DEF JobInv
  <2>3. DeduplicatorInv(j)'
    BY <2>2, <1>1 DEF DeduplicatorInv, SilverMoves
  <2> QED
    BY <2>2, <2>3, <1>3 DEF JobInv
<1> QED
  BY <1>2, <1>3

LEMMA JobBegun ==
    ASSUME NEW j \in Jobs, Begun(j)
    PROVE  JobInv(j)'
<1>1. PICK f \in BOOLEAN : job'[j] = Started(f) /\ (j[1] = "promote" /\ j[3] = 0 => f)
  BY DEF Begun
<1>2. job'[j].tries = 0 /\ job'[j].step = "read" /\ job'[j].force = f
  BY <1>1, StartedTyped
<1> QED
  BY <1>1, <1>2, ConstantsAssumption DEF JobInv, PromoterInv, DeduplicatorInv

LEMMA JobEnded ==
    ASSUME NEW j \in Jobs, job'[j].state # "live"
    PROVE  JobInv(j)'
  BY DEF JobInv

LEMMA SilverKept ==
    ASSUME TypeOK, TypeOK', NEW c \in Companies, SilverInv(c), SilverMoves(c), Backed(c),
           GoldGrows, Disturbed => Disturbed',
           silver[c].gold # Nil => silver'[c].gold # Nil,
           FirstCui[c] # Nil /\ job'[<<"promote", c, 0>>].state = "done" =>
               \/ job[<<"promote", c, 0>>].state = "done"
               \/ silver'[c].gold # Nil
               \/ \E k \in Cuis : gold'[k].from = c
    PROVE  SilverInv(c)'
<1>1. FirstCui[c] # Nil => silver'[c].cui # Nil
  BY DEF SilverInv, SilverMoves
<1>2. ~silver'[c].master => Disturbed'
  BY DEF SilverInv, SilverMoves
<1>3. ASSUME FirstCui[c] # Nil, job'[<<"promote", c, 0>>].state = "done"
      PROVE  silver'[c].gold # Nil \/ \E k \in Cuis : gold'[k].from = c
  <2>1. c # Nil
    BY ConstantsAssumption
  <2> QED
    BY <1>3, <2>1 DEF SilverInv, GoldGrows
<1> QED
  BY <1>1, <1>2, <1>3 DEF SilverInv, Backed

\* Whoever pointed to a gold company that carries its contacts still does.
LEMMA BackedKept ==
    ASSUME TypeOK, NEW c \in Companies, SilverInv(c), GoldGrows, silver'[c].gold = silver[c].gold
    PROVE  Backed(c)
<1>1. SUFFICES ASSUME silver[c].gold # Nil PROVE Backed(c)
  BY DEF Backed
<1>2. silver[c].gold \in Cuis
  BY <1>1 DEF TypeOK, Silver
<1> QED
  BY <1>1, <1>2 DEF Backed, SilverInv, GoldGrows

LEMMA MastersKept ==
    ASSUME MastersDiffer,
           \A c \in Companies : silver'[c].cui = silver[c].cui
                                  /\ (silver'[c].master => silver[c].master)
    PROVE  MastersDiffer'
  BY DEF MastersDiffer

LEMMA StepInv ==
    ASSUME IInv, TypeOK', MastersDiffer', GoldGrows, Disturbed => Disturbed',
           \A c \in Companies :
               /\ SilverMoves(c) /\ Backed(c)
               /\ silver[c].gold # Nil => silver'[c].gold # Nil
               /\ FirstCui[c] # Nil /\ job'[<<"promote", c, 0>>].state = "done" =>
                      \/ job[<<"promote", c, 0>>].state = "done"
                      \/ silver'[c].gold # Nil
                      \/ \E k \in Cuis : gold'[k].from = c,
           \A j \in Jobs : job'[j] = job[j] \/ Begun(j) \/ JobInv(j)'
    PROVE  IInv'
<1>1. ASSUME NEW c \in Companies PROVE SilverInv(c)'
  BY SilverKept DEF IInv
<1>2. ASSUME NEW j \in Jobs PROVE JobInv(j)'
  <2>1. CASE job'[j] = job[j]
    BY <2>1, JobKept, JobParts DEF IInv
  <2>2. CASE Begun(j)
    BY <2>2, JobBegun
  <2> QED
    BY <2>1, <2>2
<1> QED
  BY <1>1, <1>2 DEF IInv

\* A step that adds jobs, moves companies and leaves gold alone.
LEMMA QueueInv ==
    ASSUME IInv, TypeOK', MastersDiffer', UNCHANGED gold, Disturbed => Disturbed',
           \A c \in Companies : SilverMoves(c) /\ silver'[c].gold = silver[c].gold,
           \A j \in Jobs : job'[j] = job[j] \/ Begun(j)
    PROVE  IInv'
<1>1. GoldGrows
  BY DEF GoldGrows
<1>2. ASSUME NEW c \in Companies PROVE Backed(c)
  BY <1>1, BackedKept DEF IInv
<1>3. ASSUME NEW c \in Companies, job'[<<"promote", c, 0>>].state = "done"
      PROVE  job[<<"promote", c, 0>>].state = "done"
  <2>1. <<"promote", c, 0>> \in Jobs
    BY JobIds
  <2>2. ~Begun(<<"promote", c, 0>>)
    BY <1>3, StartedTyped DEF Begun
  <2> QED
    BY <1>3, <2>1, <2>2
<1> QED
  BY <1>1, <1>2, <1>3, StepInv

\* The companies as they are.
LEMMA SilverSame ==
    ASSUME MastersDiffer, UNCHANGED <<silver, left>>
    PROVE  /\ Disturbed => Disturbed'
           /\ MastersDiffer'
           /\ \A c \in Companies : SilverMoves(c) /\ silver'[c].gold = silver[c].gold
  BY DEF Disturbed, MastersDiffer, SilverMoves

\* A step of a job that leaves companies and gold alone.
LEMMA JobStepInv ==
    ASSUME IInv, UNCHANGED <<silver, gold, left>>, TypeOK', NEW j \in Jobs, NEW x \in Job,
           job' = [job EXCEPT ![j] = x], JobInv(j)',
           j[1] = "promote" /\ j[3] = 0 /\ x.state = "done" /\ FirstCui[j[2]] # Nil =>
               \/ job[j].state = "done"
               \/ silver[j[2]].gold # Nil
               \/ \E k \in Cuis : gold[k].from = j[2]
    PROVE  IInv'
<1>1. GoldGrows
  BY DEF GoldGrows
<1>2. /\ Disturbed => Disturbed'
      /\ MastersDiffer'
      /\ \A c \in Companies : SilverMoves(c) /\ silver'[c].gold = silver[c].gold
  BY SilverSame DEF IInv
<1>3. ASSUME NEW c \in Companies PROVE Backed(c)
  BY <1>1, <1>2, BackedKept DEF IInv
<1>4. job \in [Jobs -> Job]
  BY DEF IInv, TypeOK
<1>5. ASSUME NEW c \in Companies, FirstCui[c] # Nil, job'[<<"promote", c, 0>>].state = "done"
      PROVE  \/ job[<<"promote", c, 0>>].state = "done"
             \/ silver'[c].gold # Nil
             \/ \E k \in Cuis : gold'[k].from = c
  <2>1. <<"promote", c, 0>> \in Jobs
    BY JobIds
  <2>2. CASE j = <<"promote", c, 0>>
    <3>1. j[1] = "promote" /\ j[2] = c /\ j[3] = 0 /\ x.state = "done"
      BY <1>4, <1>5, <2>1, <2>2
    <3> QED
      BY <1>5, <2>2, <3>1
  <2> QED
    BY <1>4, <1>5, <2>1, <2>2
<1>6. \A i \in Jobs : job'[i] = job[i] \/ JobInv(i)'
  BY <1>4
<1> QED
  BY <1>1, <1>2, <1>3, <1>5, <1>6, StepInv

-----------------------------------------------------------------------------
(* Who asks for a promotion *)

LEMMA InitInv == Init => IInv
<1> SUFFICES ASSUME Init PROVE IInv
  OBVIOUS
<1>1. MaxCalls \in Nat /\ MaxRounds \in Nat /\ MaxDecisions \in Nat /\ Nil \notin Companies
  BY ConstantsAssumption
<1>2. \A c \in Companies : FirstCui[c] \in Cuis \cup {Nil} /\ FirstContacts[c] \in SUBSET Contacts
  BY ConstantsAssumption
<1>3. TypeOK
  <2>1. silver \in [Companies -> Silver]
    BY <1>2 DEF Init, Silver
  <2>2. gold \in [Cuis -> Gold] /\ job \in [Jobs -> Job]
    BY NoJobTyped DEF Init, Gold
  <2>3. left \in [calls : 0..MaxCalls, rounds : 0..MaxRounds, decisions : 0..MaxDecisions]
    BY <1>1 DEF Init
  <2> QED
    BY <2>1, <2>2, <2>3 DEF Init, TypeOK
<1>4. MastersDiffer
  BY ConstantsAssumption DEF Init, MastersDiffer
<1>5. ASSUME NEW c \in Companies PROVE SilverInv(c)
  <2>1. job[<<"promote", c, 0>>].state = "absent"
    BY JobIds, NoJobTyped DEF Init
  <2> QED
    BY <2>1 DEF Init, SilverInv
<1>6. ASSUME NEW j \in Jobs PROVE JobInv(j)
  BY NoJobTyped DEF Init, JobInv
<1> QED
  BY <1>3, <1>4, <1>5, <1>6 DEF IInv

\* A company whose promotion is decided is otherwise the same.
LEMMA Decided ==
    ASSUME TypeOK, MastersDiffer, NEW c \in Companies,
           NEW v \in {"blocked", "eligible", "review_required"},
           silver' = [silver EXCEPT ![c].promotion = v],
           left'.decisions = left.decisions
    PROVE  /\ silver' \in [Companies -> Silver]
           /\ Disturbed => Disturbed'
           /\ MastersDiffer'
           /\ \A d \in Companies : SilverMoves(d) /\ silver'[d].gold = silver[d].gold
<1> DEFINE row == [silver[c] EXCEPT !.promotion = v]
<1>1. silver[c] \in Silver
  BY DEF TypeOK
<1>2. /\ row \in Silver
      /\ row.cui = silver[c].cui /\ row.master = silver[c].master
      /\ row.gold = silver[c].gold /\ row.moved = silver[c].moved
  BY <1>1 DEF Silver
<1>3. silver' = [silver EXCEPT ![c] = row]
  OBVIOUS
<1> HIDE DEF row
<1>4. /\ silver' \in [Companies -> Silver]
      /\ \A d \in Companies :
             /\ silver'[d].cui = silver[d].cui /\ silver'[d].master = silver[d].master
             /\ silver'[d].gold = silver[d].gold /\ silver'[d].moved = silver[d].moved
  BY <1>2, <1>3 DEF TypeOK
<1>5. MastersDiffer'
  BY <1>4, MastersKept
<1> QED
  BY <1>4, <1>5 DEF Disturbed, SilverMoves

LEMMA RollupInv ==
    ASSUME IInv, NEW c \in Companies, Rollup(c)
    PROVE  IInv'
<1>1. PICK v \in Verdicts, sent \in BOOLEAN :
        /\ silver' = [silver EXCEPT ![c].promotion = v]
        /\ IF v = "eligible" /\ sent THEN Free(c) # {} /\ job' = Anew(job, c, FALSE)
           ELSE UNCHANGED job
        /\ tasks' = tasks \cup (IF v = "review_required" /\ sent THEN {<<"quality", c>>} ELSE {})
  BY DEF Rollup
<1>2. TypeOK /\ MastersDiffer
  BY DEF IInv
<1>3. v \in {"blocked", "eligible", "review_required"}
  BY ConstantsAssumption
<1>4. /\ left' \in [calls : 0..MaxCalls, rounds : 0..MaxRounds, decisions : 0..MaxDecisions]
      /\ left'.decisions = left.decisions
  BY <1>2, ConstantsAssumption DEF Rollup, TypeOK
<1>5. /\ silver' \in [Companies -> Silver]
      /\ Disturbed => Disturbed'
      /\ MastersDiffer'
      /\ \A d \in Companies : SilverMoves(d) /\ silver'[d].gold = silver[d].gold
  BY <1>1, <1>2, <1>3, <1>4, Decided
<1>6. job' \in [Jobs -> Job] /\ \A j \in Jobs : job'[j] = job[j] \/ Begun(j)
  <2>1. CASE v = "eligible" /\ sent
    <3>1. Free(c) # {} /\ job' = Anew(job, c, FALSE)
      BY <1>1, <2>1
    <3> QED
      BY <1>2, <3>1, AnewAdds DEF Begun
  <2>2. CASE ~(v = "eligible" /\ sent)
    BY <1>1, <1>2, <2>2 DEF TypeOK
  <2> QED
    BY <2>1, <2>2
<1>7. TypeOK'
  BY <1>1, <1>2, <1>4, <1>5, <1>6 DEF TypeOK, Rollup
<1> QED
  BY <1>5, <1>6, <1>7, QueueInv DEF Rollup

LEMMA AskInv ==
    ASSUME IInv, NEW c \in Companies, AskPromotion(c)
    PROVE  IInv'
<1>1. PICK f \in BOOLEAN : job' = Anew(job, c, f)
  BY DEF AskPromotion
<1>2. TypeOK /\ MastersDiffer
  BY DEF IInv
<1>3. /\ left' \in [calls : 0..MaxCalls, rounds : 0..MaxRounds, decisions : 0..MaxDecisions]
      /\ left'.decisions = left.decisions
  BY <1>2, ConstantsAssumption DEF AskPromotion, TypeOK
<1>4. /\ Disturbed => Disturbed'
      /\ MastersDiffer'
      /\ \A d \in Companies : SilverMoves(d) /\ silver'[d].gold = silver[d].gold
  BY <1>2, <1>3 DEF AskPromotion, Disturbed, MastersDiffer, SilverMoves
<1>5. job' \in [Jobs -> Job] /\ \A j \in Jobs : job'[j] = job[j] \/ Begun(j)
  BY <1>1, <1>2, AnewAdds DEF Begun, AskPromotion
<1>6. TypeOK'
  BY <1>2, <1>3, <1>5 DEF TypeOK, AskPromotion
<1> QED
  BY <1>4, <1>5, <1>6, QueueInv DEF AskPromotion

LEMMA MonitorInv ==
    ASSUME IInv, Monitor
    PROVE  IInv'
<1>1. TypeOK /\ MastersDiffer
  BY DEF IInv
<1>2. /\ left' \in [calls : 0..MaxCalls, rounds : 0..MaxRounds, decisions : 0..MaxDecisions]
      /\ left'.decisions = left.decisions
  BY <1>1, ConstantsAssumption DEF Monitor, TypeOK
<1>3. /\ Disturbed => Disturbed'
      /\ MastersDiffer'
      /\ \A d \in Companies : SilverMoves(d) /\ silver'[d].gold = silver[d].gold
  BY <1>1, <1>2 DEF Monitor, Disturbed, MastersDiffer, SilverMoves
<1>4. ASSUME NEW j \in Jobs
      PROVE  job'[j] \in Job /\ (job'[j] = job[j] \/ Begun(j))
  <2> DEFINE stuck == {c \in Companies : silver[c].promotion = "eligible" /\ silver[c].gold = Nil}
  <2>1. CASE j[2] \in stuck
    <3>1. j[2] \in Companies /\ Free(j[2]) # {} /\ job'[j] = Anew(job, j[2], FALSE)[j]
      BY <2>1 DEF Monitor
    <3> QED
      BY <1>1, <3>1, AnewAdds DEF Begun
  <2>2. CASE j[2] \notin stuck
    BY <1>1, <2>2 DEF Monitor, TypeOK
  <2> QED
    BY <2>1, <2>2
<1>5. job' \in [Jobs -> Job]
  BY <1>4 DEF Monitor
<1>6. TypeOK'
  BY <1>1, <1>2, <1>5 DEF TypeOK, Monitor
<1> QED
  BY <1>3, <1>4, <1>6, QueueInv DEF Monitor

LEMMA QualityReviewInv ==
    ASSUME IInv, NEW c \in Companies, QualityReview(c)
    PROVE  IInv'
<1>1. PICK approved \in BOOLEAN, sent \in BOOLEAN :
        /\ silver' = [silver EXCEPT ![c].promotion = IF approved THEN "eligible" ELSE "blocked"]
        /\ job' = IF approved /\ sent THEN Added(job, <<"promote", c, 0>>, TRUE) ELSE job
  BY DEF QualityReview
<1>2. TypeOK /\ MastersDiffer
  BY DEF IInv
<1>3. /\ silver' \in [Companies -> Silver]
      /\ Disturbed => Disturbed'
      /\ MastersDiffer'
      /\ \A d \in Companies : SilverMoves(d) /\ silver'[d].gold = silver[d].gold
  BY <1>1, <1>2, Decided DEF QualityReview
<1>4. job' \in [Jobs -> Job] /\ \A j \in Jobs : job'[j] = job[j] \/ Begun(j)
  <2> DEFINE p == <<"promote", c, 0>>
  <2>1. p \in Jobs
    BY JobIds
  <2> HIDE DEF p
  <2>2. job' = job \/ job' = Added(job, p, TRUE)
    BY <1>1 DEF p
  <2>3. /\ Added(job, p, TRUE) \in [Jobs -> Job]
        /\ \A j \in Jobs : Added(job, p, TRUE)[j] = job[j]
                             \/ (j = p /\ Added(job, p, TRUE)[j] = Started(TRUE))
    <3>1. job \in [Jobs -> Job]
      BY <1>2 DEF TypeOK
    <3>2. Started(TRUE) \in Job
      BY StartedTyped
    <3> QED
      BY <2>1, <3>1, <3>2 DEF Added
  <2> QED
    BY <1>2, <2>2, <2>3 DEF Begun, TypeOK
<1>5. TypeOK'
  BY <1>2, <1>3, <1>4 DEF TypeOK, QualityReview
<1> QED
  BY <1>3, <1>4, <1>5, QueueInv DEF QualityReview

LEMMA PostEnrichmentInv ==
    ASSUME IInv, NEW c \in Companies, PostEnrichment(c)
    PROVE  IInv'
<1>1. TypeOK /\ MastersDiffer
  BY DEF IInv
<1>2. /\ left' \in [calls : 0..MaxCalls, rounds : 0..MaxRounds, decisions : 0..MaxDecisions]
      /\ left'.decisions = left.decisions
  BY <1>1, ConstantsAssumption DEF PostEnrichment, TypeOK
<1>3. /\ Disturbed => Disturbed'
      /\ MastersDiffer'
      /\ \A d \in Companies : SilverMoves(d) /\ silver'[d].gold = silver[d].gold
  BY <1>1, <1>2 DEF PostEnrichment, Disturbed, MastersDiffer, SilverMoves
<1>4. job' \in [Jobs -> Job] /\ \A j \in Jobs : job'[j] = job[j] \/ Begun(j)
  BY <1>1, DedupAdds DEF Begun, PostEnrichment
<1>5. TypeOK'
  BY <1>1, <1>2, <1>4 DEF TypeOK, PostEnrichment
<1> QED
  BY <1>3, <1>4, <1>5, QueueInv DEF PostEnrichment

LEMMA DedupReviewInv ==
    ASSUME IInv, NEW c \in Companies, NEW d \in Companies, DedupReview(c, d)
    PROVE  IInv'
<1>1. TypeOK /\ MastersDiffer
  BY DEF IInv
<1>2. UNCHANGED <<silver, gold, candidates, errors, left>>
  BY DEF DedupReview
<1>3. job' \in [Jobs -> Job] /\ \A j \in Jobs : job'[j] = job[j] \/ Begun(j)
  BY <1>1, DedupAdds DEF Begun, DedupReview
<1>4. TypeOK'
  BY <1>1, <1>2, <1>3 DEF TypeOK, DedupReview
<1> QED
  BY <1>1, <1>2, <1>3, <1>4, QueueInv, SilverSame

-----------------------------------------------------------------------------
(* P2 *)

\* The types after a step of a job that leaves everything but gold and tasks alone.
LEMMA JobTyped ==
    ASSUME TypeOK, UNCHANGED <<silver, candidates, errors, left>>,
           NEW j \in Jobs, NEW x \in Job, job' = [job EXCEPT ![j] = x],
           gold' \in [Cuis -> Gold],
           tasks' \subseteq ({"quality"} \X Companies) \cup ({"dedup"} \X Companies \X Companies)
    PROVE  TypeOK' /\ job'[j] = x
  BY DEF TypeOK

LEMMA ReadSilverInv ==
    ASSUME IInv, NEW j \in Jobs, ReadSilver(j)
    PROVE  IInv'
<1> DEFINE row == silver[j[2]]
           x == [job[j] EXCEPT !.step = "look", !.cui = row.cui]
           ends == row.cui = Nil \/ (~job[j].force /\ row.promotion # "eligible")
<1>1. TypeOK /\ MastersDiffer /\ JobInv(j) /\ j[2] \in Companies /\ SilverInv(j[2])
  BY JobParts DEF IInv
<1>2. /\ j[1] = "promote" /\ job[j].state = "live" /\ job[j].step = "read"
      /\ UNCHANGED <<silver, gold, candidates, errors, tasks, left>>
  BY DEF ReadSilver, At
<1>3. job' = [job EXCEPT ![j] = IF ends THEN Ended(j) ELSE x]
  BY DEF ReadSilver
<1>4. job[j].tries < Attempts /\ PromoterInv(j)
  BY <1>1, <1>2 DEF JobInv
<1>5. /\ x \in Job /\ x.state = "live" /\ x.tries = job[j].tries /\ x.step = "look"
      /\ x.cui = row.cui /\ x.force = job[j].force
  <2>1. job[j] \in Job /\ row.cui \in Cuis \cup {Nil}
    BY <1>1 DEF TypeOK, Silver
  <2> QED
    <3>1. "look" \in Steps
      BY DEF Steps
    <3> HIDE DEF row
    <3>2. /\ x \in Job /\ x.state = "live" /\ x.tries = job[j].tries /\ x.step = "look"
          /\ x.cui = row.cui
      BY <1>2, <2>1, <3>1 DEF Job
    <3>3. x.force = job[j].force
      BY Zenon, <2>1 DEF Job
    <3> QED
      BY <3>2, <3>3
<1>6. CASE ends
  <2>1. job' = [job EXCEPT ![j] = Ended(j)] /\ Ended(j) \in Job
    BY <1>3, <1>6, EndedTyped
  <2>2. TypeOK' /\ job'[j] = Ended(j)
    BY <1>1, <1>2, <2>1, JobTyped DEF TypeOK
  <2>3. JobInv(j)'
    BY <2>2, EndedTyped, JobEnded
  <2>4. j[3] = 0 => FirstCui[j[2]] = Nil
    BY <1>1, <1>4, <1>6 DEF PromoterInv, SilverInv
  <2> QED
    BY <1>2, <2>1, <2>2, <2>3, <2>4, JobStepInv
<1>7. CASE ~ends
  <2>1. job' = [job EXCEPT ![j] = x] /\ row.cui \in Cuis
    BY <1>1, <1>3, <1>7 DEF TypeOK, Silver
  <2> HIDE DEF x, row, ends
  <2>2. TypeOK' /\ job'[j] = x
    BY <1>1, <1>2, <1>5, <2>1, JobTyped DEF TypeOK
  <2>3. JobInv(j)'
    BY <1>2, <1>4, <1>5, <2>1, <2>2 DEF JobInv, PromoterInv
  <2> QED
    BY <1>2, <1>5, <2>1, <2>2, <2>3, JobStepInv
<1> QED
  BY <1>6, <1>7

LEMMA LookForGoldInv ==
    ASSUME IInv, NEW j \in Jobs, LookForGold(j)
    PROVE  IInv'
<1> DEFINE x == [job[j] EXCEPT !.step = "upsert"]
<1>1. TypeOK /\ MastersDiffer /\ JobInv(j) /\ j[2] \in Companies
  BY JobParts DEF IInv
<1>2. /\ j[1] = "promote" /\ job[j].state = "live" /\ job[j].step = "look"
      /\ UNCHANGED <<silver, gold, candidates, errors, tasks, left>>
  BY DEF LookForGold, At
<1>3. job[j].tries < Attempts /\ PromoterInv(j)
  BY <1>1, <1>2 DEF JobInv
<1>4. /\ x \in Job /\ x.state = "live" /\ x.tries = job[j].tries /\ x.step = "upsert"
      /\ x.cui = job[j].cui /\ x.force = job[j].force
  <2>1. job[j] \in Job /\ {"upsert", "copy", "mark"} \subseteq Steps
    BY <1>1 DEF TypeOK, Steps
  <2> QED
    BY <1>2, <2>1, StepSet
<1>5. CASE \E k \in Cuis : gold[k].from = j[2]
  <2>1. job' = [job EXCEPT ![j] = Ended(j)] /\ Ended(j) \in Job
    BY <1>5, EndedTyped DEF LookForGold
  <2>2. TypeOK' /\ job'[j] = Ended(j)
    BY <1>1, <1>2, <2>1, JobTyped DEF TypeOK
  <2>3. JobInv(j)'
    BY <2>2, EndedTyped, JobEnded
  <2> QED
    BY <1>2, <1>5, <2>1, <2>2, <2>3, JobStepInv
<1>6. CASE ~\E k \in Cuis : gold[k].from = j[2]
  <2>1. job' = [job EXCEPT ![j] = x]
    BY <1>6 DEF LookForGold
  <2> HIDE DEF x
  <2>2. TypeOK' /\ job'[j] = x
    BY <1>1, <1>2, <1>4, <2>1, JobTyped DEF TypeOK
  <2>3. JobInv(j)'
    BY <1>2, <1>3, <1>4, <2>2 DEF JobInv, PromoterInv
  <2> QED
    BY <1>2, <1>4, <2>1, <2>2, <2>3, JobStepInv
<1> QED
  BY <1>5, <1>6

\* A step of P2 that writes gold and goes on.
LEMMA WriteGoldInv ==
    ASSUME IInv, NEW j \in Jobs, NEW x \in Job, UNCHANGED <<silver, candidates, errors, tasks, left>>,
           x.state = "live", j[1] = "promote",
           job' = [job EXCEPT ![j] = x], gold' \in [Cuis -> Gold], GoldGrows, JobInv(j)'
    PROVE  IInv'
<1>1. TypeOK /\ MastersDiffer /\ job \in [Jobs -> Job]
  BY DEF IInv, TypeOK
<1>2. TypeOK' /\ job'[j] = x
  BY <1>1, JobTyped DEF TypeOK
<1>3. /\ Disturbed => Disturbed'
      /\ MastersDiffer'
      /\ \A c \in Companies : SilverMoves(c) /\ silver'[c].gold = silver[c].gold
  BY <1>1, SilverSame
<1>4. ASSUME NEW c \in Companies PROVE Backed(c)
  BY <1>1, <1>3, BackedKept DEF IInv
<1>5. ASSUME NEW c \in Companies, job'[<<"promote", c, 0>>].state = "done"
      PROVE  job[<<"promote", c, 0>>].state = "done"
  BY <1>1, <1>2, <1>5, JobIds
<1>6. \A i \in Jobs : job'[i] = job[i] \/ JobInv(i)'
  BY <1>1
<1> QED
  BY <1>2, <1>3, <1>4, <1>5, <1>6, StepInv

LEMMA UpsertInv ==
    ASSUME IInv, NEW j \in Jobs, Upsert(j)
    PROVE  IInv'
<1> DEFINE cui == job[j].cui
           row == [gold[cui] EXCEPT !.from = IF @ = Nil THEN j[2] ELSE @]
           x == [job[j] EXCEPT !.step = IF row.from = j[2] THEN "copy" ELSE "mark"]
<1>1. TypeOK /\ JobInv(j) /\ j[2] \in Companies /\ j[2] # Nil
  BY JobParts, ConstantsAssumption DEF IInv
<1>2. /\ j[1] = "promote" /\ job[j].state = "live" /\ job[j].step = "upsert"
      /\ UNCHANGED <<silver, candidates, errors, tasks, left>>
  BY DEF Upsert, At
<1>3. job[j].tries < Attempts /\ PromoterInv(j)
  BY <1>1, <1>2 DEF JobInv
<1>4. cui \in Cuis
  BY <1>2, <1>3 DEF PromoterInv
<1>5. /\ row \in Gold /\ row.from = (IF gold[cui].from = Nil THEN j[2] ELSE gold[cui].from)
      /\ row.copied = gold[cui].copied
  BY <1>1, <1>4 DEF TypeOK, Gold
<1>6. gold' = [gold EXCEPT ![cui] = row]
  BY DEF Upsert
<1>7. gold' \in [Cuis -> Gold] /\ gold'[cui] = row /\ \A k \in Cuis : k # cui => gold'[k] = gold[k]
  BY <1>1, <1>4, <1>5, <1>6 DEF TypeOK
<1>8. job' = [job EXCEPT ![j] = x]
  BY <1>7 DEF Upsert
<1>9. /\ x \in Job /\ x.state = "live" /\ x.tries = job[j].tries /\ x.cui = cui
      /\ x.step = (IF row.from = j[2] THEN "copy" ELSE "mark") /\ x.force = job[j].force
  <2>1. job[j] \in Job /\ {"upsert", "copy", "mark"} \subseteq Steps
    BY <1>1 DEF TypeOK, Steps
  <2> QED
    BY <1>2, <2>1, StepSet
<1> HIDE DEF x, row
<1>10. GoldGrows
  BY <1>5, <1>7 DEF GoldGrows
<1>11. job'[j] = x
  BY <1>1, <1>8, <1>9 DEF TypeOK
<1>12. JobInv(j)'
  BY <1>1, <1>2, <1>3, <1>4, <1>5, <1>7, <1>9, <1>11 DEF JobInv, PromoterInv
<1> QED
  BY <1>2, <1>7, <1>8, <1>9, <1>10, <1>12, WriteGoldInv

LEMMA CopyContactsInv ==
    ASSUME IInv, NEW j \in Jobs, CopyContacts(j)
    PROVE  IInv'
<1> DEFINE cui == job[j].cui
           row == [gold[cui] EXCEPT !.copied = TRUE]
           x == [job[j] EXCEPT !.step = "mark"]
<1>1. TypeOK /\ JobInv(j) /\ j[2] \in Companies /\ j[2] # Nil
  BY JobParts, ConstantsAssumption DEF IInv
<1>2. /\ j[1] = "promote" /\ job[j].state = "live" /\ job[j].step = "copy"
      /\ UNCHANGED <<silver, candidates, errors, tasks, left>>
  BY DEF CopyContacts, At
<1>3. job[j].tries < Attempts /\ PromoterInv(j)
  BY <1>1, <1>2 DEF JobInv
<1>4. cui \in Cuis /\ gold[cui].from = j[2]
  BY <1>2, <1>3 DEF PromoterInv
<1>5. row \in Gold /\ row.from = gold[cui].from /\ row.copied
  BY <1>1, <1>4 DEF TypeOK, Gold
<1>6. gold' = [gold EXCEPT ![cui] = row]
  BY DEF CopyContacts
<1>7. job' = [job EXCEPT ![j] = x]
  BY DEF CopyContacts
<1>8. /\ x \in Job /\ x.state = "live" /\ x.tries = job[j].tries /\ x.cui = cui
      /\ x.step = "mark" /\ x.force = job[j].force
  <2>1. job[j] \in Job /\ {"upsert", "copy", "mark"} \subseteq Steps
    BY <1>1 DEF TypeOK, Steps
  <2> QED
    BY <1>2, <2>1, StepSet
<1> HIDE DEF x, row
<1>9. gold' \in [Cuis -> Gold] /\ gold'[cui] = row /\ \A k \in Cuis : k # cui => gold'[k] = gold[k]
  BY <1>1, <1>4, <1>5, <1>6 DEF TypeOK
<1>10. GoldGrows
  BY <1>5, <1>9 DEF GoldGrows
<1>11. job'[j] = x
  BY <1>1, <1>7, <1>8 DEF TypeOK
<1>12. JobInv(j)'
  BY <1>1, <1>2, <1>3, <1>4, <1>5, <1>9, <1>8, <1>11 DEF JobInv, PromoterInv
<1> QED
  BY <1>2, <1>7, <1>8, <1>9, <1>10, <1>12, WriteGoldInv

LEMMA MarkPromotedInv ==
    ASSUME IInv, NEW j \in Jobs, MarkPromoted(j)
    PROVE  IInv'
<1> DEFINE c == j[2]
           cui == job[j].cui
           row == [silver[c] EXCEPT !.promotion = "promoted", !.gold = cui]
<1>1. TypeOK /\ MastersDiffer /\ JobInv(j) /\ c \in Companies /\ c # Nil
  BY JobParts, ConstantsAssumption DEF IInv
<1>2. /\ j[1] = "promote" /\ job[j].state = "live" /\ job[j].step = "mark"
      /\ UNCHANGED <<gold, candidates, errors, tasks, left>>
      /\ job' = [job EXCEPT ![j] = Ended(j)]
  BY DEF MarkPromoted, At
<1>3. PromoterInv(j)
  BY <1>1, <1>2 DEF JobInv
<1>4. cui \in Cuis /\ gold[cui].from # Nil /\ (gold[cui].from = c => gold[cui].copied)
  BY <1>2, <1>3 DEF PromoterInv
<1>5. /\ row \in Silver /\ row.gold = cui /\ row.cui = silver[c].cui
      /\ row.master = silver[c].master /\ row.moved = silver[c].moved
  <2>1. silver[c] \in Silver
    BY <1>1 DEF TypeOK
  <2>2. row \in Silver /\ row.gold = cui /\ row.cui = silver[c].cui
    BY <2>1, <1>4 DEF Silver
  <2>3. row.master = silver[c].master /\ row.moved = silver[c].moved
    BY Zenon, <2>1 DEF Silver
  <2> QED
    BY <2>2, <2>3
<1>6. silver' = [silver EXCEPT ![c] = row]
  BY DEF MarkPromoted
<1> HIDE DEF row
<1>7. silver' \in [Companies -> Silver] /\ silver'[c] = row
      /\ \A d \in Companies : d # c => silver'[d] = silver[d]
  BY <1>1, <1>5, <1>6 DEF TypeOK
<1>8. Ended(j) \in Job /\ Ended(j).state # "live"
  BY EndedTyped
<1>9. job' \in [Jobs -> Job] /\ job'[j] = Ended(j) /\ \A i \in Jobs : i # j => job'[i] = job[i]
  BY <1>1, <1>2, <1>8 DEF TypeOK
<1>10. TypeOK'
  BY <1>1, <1>2, <1>7, <1>9 DEF TypeOK
<1>11. \A d \in Companies : /\ silver'[d].cui = silver[d].cui /\ silver'[d].master = silver[d].master
                            /\ silver'[d].moved = silver[d].moved
  BY <1>5, <1>7
<1>12. /\ Disturbed => Disturbed'
       /\ MastersDiffer'
       /\ GoldGrows
       /\ \A d \in Companies : SilverMoves(d)
  BY <1>1, <1>2, <1>11, MastersKept DEF Disturbed, SilverMoves, GoldGrows
<1>13. ASSUME NEW d \in Companies PROVE Backed(d)
  <2>1. CASE d = c
    BY <1>2, <1>4, <1>5, <1>7, <2>1 DEF Backed
  <2>2. CASE d # c
    BY <1>1, <1>7, <1>12, <2>2, BackedKept DEF IInv
  <2> QED
    BY <2>1, <2>2
<1>14. cui # Nil
  BY <1>4, ConstantsAssumption
<1>15. ASSUME NEW d \in Companies
       PROVE  /\ silver[d].gold # Nil => silver'[d].gold # Nil
              /\ job'[<<"promote", d, 0>>].state = "done" =>
                    job[<<"promote", d, 0>>].state = "done" \/ silver'[d].gold # Nil
  <2>1. CASE d = c
    BY <1>5, <1>7, <1>14, <2>1
  <2>2. CASE d # c
    <3>1. ASSUME j = <<"promote", d, 0>> PROVE FALSE
      BY <2>2, <3>1
    <3> QED
      BY <1>7, <1>9, <2>2, <3>1, JobIds
  <2> QED
    BY <2>1, <2>2
<1>16. \A i \in Jobs : job'[i] = job[i] \/ JobInv(i)'
  BY <1>8, <1>9, JobEnded
<1> QED
  BY <1>10, <1>12, <1>13, <1>15, <1>16, StepInv

-----------------------------------------------------------------------------
(* M1, M2, J1 and the operator *)

LEMMA WriteCuiInv ==
    ASSUME IInv, NEW c \in Companies, WriteCui(c)
    PROVE  IInv'
<1>1. PICK k \in Cuis :
        /\ silver[c].cui # k /\ CuiFree(c, k)
        /\ silver' = [silver EXCEPT ![c].cui = k, ![c].moved = @ \/ silver[c].cui # Nil]
  BY DEF WriteCui
<1> DEFINE row == [silver[c] EXCEPT !.cui = k, !.moved = @ \/ silver[c].cui # Nil]
<1>2. TypeOK /\ MastersDiffer /\ silver[c] \in Silver
  BY DEF IInv, TypeOK
<1>3. UNCHANGED <<gold, candidates, job, errors, tasks, left>>
  BY DEF WriteCui
<1>4. k # Nil
  BY ConstantsAssumption
<1>5. /\ row \in Silver /\ row.cui = k /\ row.gold = silver[c].gold
      /\ row.master = silver[c].master /\ (row.moved <=> silver[c].moved \/ silver[c].cui # Nil)
  <2>1. row \in Silver /\ row.cui = k /\ row.gold = silver[c].gold
    BY <1>2 DEF Silver
  <2>2. row.master = silver[c].master /\ (row.moved <=> silver[c].moved \/ silver[c].cui # Nil)
    BY Zenon, <1>2 DEF Silver
  <2> QED
    BY <2>1, <2>2
<1>6. silver' = [silver EXCEPT ![c] = row]
  BY <1>1
<1> HIDE DEF row
<1>7. silver' \in [Companies -> Silver] /\ silver'[c] = row
      /\ \A d \in Companies : d # c => silver'[d] = silver[d]
  BY <1>2, <1>5, <1>6 DEF TypeOK
<1>8. TypeOK'
  BY <1>2, <1>3, <1>7 DEF TypeOK
<1>9. Disturbed => Disturbed'
  BY <1>3, <1>5, <1>7 DEF Disturbed
<1>10. silver[c].cui # Nil => Disturbed'
  BY <1>5, <1>7 DEF Disturbed
<1>11. ASSUME NEW d \in Companies
       PROVE  SilverMoves(d) /\ silver'[d].gold = silver[d].gold
  BY <1>4, <1>5, <1>7, <1>10 DEF SilverMoves
<1>12. MastersDiffer'
  BY <1>1, <1>2, <1>5, <1>7 DEF MastersDiffer, CuiFree
<1> QED
  BY <1>3, <1>8, <1>9, <1>11, <1>12, QueueInv

LEMMA ReadCompanyInv ==
    ASSUME IInv, NEW j \in Jobs, ReadCompany(j)
    PROVE  IInv'
<1> DEFINE k == silver[j[2]].cui
           x == [job[j] EXCEPT !.cui = k, !.step = "find"]
<1>1. TypeOK /\ JobInv(j) /\ j[2] \in Companies /\ job[j] \in Job
  BY JobParts DEF IInv, TypeOK
<1>2. /\ j[1] # "promote" /\ job[j].state = "live"
      /\ UNCHANGED <<silver, gold, candidates, errors, tasks, left>>
  BY DEF ReadCompany, At
<1>3. job[j].tries < Attempts
  BY <1>1, <1>2 DEF JobInv
<1>4. x \in Job /\ x.state = "live" /\ x.tries = job[j].tries /\ x.step = "find" /\ x.cui = k
  <2>1. k \in Cuis \cup {Nil}
    BY <1>1 DEF TypeOK, Silver
  <2> QED
    BY <1>1, <1>2, <2>1 DEF Job, Steps
<1>5. job' = [job EXCEPT ![j] = x]
  BY DEF ReadCompany
<1> HIDE DEF x
<1>6. TypeOK' /\ job'[j] = x
  BY <1>1, <1>2, <1>4, <1>5, JobTyped DEF TypeOK
<1>7. JobInv(j)'
  BY <1>2, <1>3, <1>4, <1>6 DEF JobInv, DeduplicatorInv
<1> QED
  BY <1>2, <1>4, <1>5, <1>6, <1>7, JobStepInv

\* Who shares a cui with a master that the job read has been disturbed.
LEMMA SameCuiDisturbed ==
    ASSUME IInv, NEW j \in Jobs, j[1] = "exact", job[j].state = "live", job[j].step = "find",
           SameCui(j[2], job[j].cui) # {}
    PROVE  Disturbed
<1>1. j[2] \in Companies /\ MastersDiffer
  BY JobParts DEF IInv
<1>2. DeduplicatorInv(j)
  BY DEF IInv, JobInv
<1>3. PICK d \in Companies \ {j[2]} : /\ job[j].cui # Nil
                                      /\ silver[d].cui = job[j].cui /\ silver[d].master
  BY DEF SameCui
<1>4. SUFFICES ASSUME ~Disturbed PROVE FALSE
  OBVIOUS
<1>5. silver[j[2]].cui = job[j].cui
  BY <1>2, <1>3, <1>4 DEF DeduplicatorInv
<1>6. silver[j[2]].master
  BY <1>1, <1>4 DEF IInv, SilverInv
<1> QED
  BY <1>1, <1>3, <1>5, <1>6 DEF MastersDiffer

\* Both find a company, or end.
LEMMA FindInv ==
    ASSUME IInv, NEW j \in Jobs, j[1] # "promote", job[j].state = "live",
           UNCHANGED <<silver, gold, candidates, errors, tasks, left>>,
           \/ job' = [job EXCEPT ![j] = Ended(j)]
           \/ \E d \in Companies, a \in BOOLEAN :
                /\ job' = [job EXCEPT ![j] = [@ EXCEPT !.other = d, !.auto = a, !.step = "insert",
                                                       !.cui = Nil]]
                /\ j[1] = "exact" /\ a => Disturbed
    PROVE  IInv'
<1>1. TypeOK /\ JobInv(j) /\ job[j] \in Job
  BY DEF IInv, TypeOK
<1>2. job[j].tries < Attempts
  BY <1>1 DEF JobInv
<1>3. CASE job' = [job EXCEPT ![j] = Ended(j)]
  <2>1. Ended(j) \in Job
    BY EndedTyped
  <2>2. TypeOK' /\ job'[j] = Ended(j)
    BY <1>1, <1>3, <2>1, JobTyped DEF TypeOK
  <2>3. JobInv(j)'
    BY <2>2, EndedTyped, JobEnded
  <2> QED
    BY <1>3, <2>1, <2>2, <2>3, JobStepInv
<1>4. ASSUME NEW d \in Companies, NEW a \in BOOLEAN, j[1] = "exact" /\ a => Disturbed,
             job' = [job EXCEPT ![j] = [@ EXCEPT !.other = d, !.auto = a, !.step = "insert",
                                                 !.cui = Nil]]
      PROVE  IInv'
  <2> DEFINE x == [job[j] EXCEPT !.other = d, !.auto = a, !.step = "insert", !.cui = Nil]
  <2>1. /\ x \in Job /\ x.state = "live" /\ x.tries = job[j].tries /\ x.step = "insert"
        /\ x.other = d /\ x.cui = Nil
    BY <1>1 DEF Job, Steps
  <2>2. x.auto = a
    BY Zenon, <1>1 DEF Job
  <2>3. job' = [job EXCEPT ![j] = x]
    BY <1>4
  <2> HIDE DEF x
  <2>4. TypeOK' /\ job'[j] = x
    BY <1>1, <2>1, <2>3, JobTyped DEF TypeOK
  <2>5. Disturbed' <=> Disturbed
    BY DEF Disturbed
  <2>6. JobInv(j)'
    <3>1. DeduplicatorInv(j)'
      BY <1>4, <2>1, <2>2, <2>4, <2>5 DEF DeduplicatorInv
    <3> QED
      BY <1>2, <2>1, <2>4, <3>1 DEF JobInv
  <2> QED
    BY <2>1, <2>3, <2>4, <2>6, JobStepInv
<1> QED
  BY <1>3, <1>4

LEMMA FindExactInv ==
    ASSUME IInv, NEW j \in Jobs, FindExact(j)
    PROVE  IInv'
<1> DEFINE found == Exact(j[2], job[j].cui)
           same == SameCui(j[2], job[j].cui) # {}
<1>1. /\ j[1] = "exact" /\ job[j].state = "live" /\ job[j].step = "find"
      /\ UNCHANGED <<silver, gold, candidates, errors, tasks, left>>
  BY DEF FindExact, At
<1>2. found \subseteq Companies
  BY DEF Exact, SameCui, SameAddress
<1>3. same => Disturbed
  BY <1>1, SameCuiDisturbed
<1>4. \/ job' = [job EXCEPT ![j] = Ended(j)]
      \/ \E d \in found :
            job' = [job EXCEPT ![j] = [@ EXCEPT !.other = d, !.step = "insert", !.cui = Nil,
                                                !.auto = same]]
  BY DEF FindExact
<1>5. ASSUME NEW d \in found,
             job' = [job EXCEPT ![j] = [@ EXCEPT !.other = d, !.step = "insert", !.cui = Nil,
                                                 !.auto = same]]
      PROVE  job' = [job EXCEPT ![j] = [@ EXCEPT !.other = d, !.auto = same, !.step = "insert",
                                                 !.cui = Nil]]
  BY <1>5
<1> HIDE DEF found, same
<1>6. same \in BOOLEAN
  BY DEF same
<1> QED
  BY <1>1, <1>2, <1>3, <1>4, <1>5, <1>6, FindInv

LEMMA FindFuzzyInv ==
    ASSUME IInv, NEW j \in Jobs, FindFuzzy(j)
    PROVE  IInv'
<1> DEFINE near == {d \in Companies \ {j[2]} : Nil \in {job[j].cui, silver[d].cui}
                                                 \/ job[j].cui = silver[d].cui}
           same == {d \in near : Similar[j[2], d] = "same"}
           likely == {d \in near : Similar[j[2], d] = "likely"}
           a == same # {}
<1>1. /\ j[1] = "fuzzy" /\ job[j].state = "live"
      /\ UNCHANGED <<silver, gold, candidates, errors, tasks, left>>
  BY DEF FindFuzzy, At
<1>2. \/ job' = [job EXCEPT ![j] = Ended(j)]
      \/ \E d \in IF same # {} THEN same ELSE likely :
           job' = [job EXCEPT ![j] = [@ EXCEPT !.other = d, !.auto = a, !.step = "insert",
                                               !.cui = Nil]]
  BY DEF FindFuzzy
<1>3. same \subseteq Companies /\ likely \subseteq Companies /\ a \in BOOLEAN
  OBVIOUS
<1> HIDE DEF same, likely, a, near
<1> QED
  BY <1>1, <1>2, <1>3, FindInv

LEMMA PairTyped ==
    ASSUME IInv, NEW j \in Jobs, j[1] # "promote", job[j].state = "live",
           job[j].step \in {"insert", "merge"}
    PROVE  /\ j[2] \in Companies /\ job[j].other \in Companies
           /\ Pair(j) \in Companies \X Companies
           /\ Pair(j)[1] \in Companies /\ Pair(j)[2] \in Companies
<1>1. j[2] \in Companies /\ job[j].other \in Companies
  BY JobParts DEF IInv, JobInv, DeduplicatorInv
<1> QED
  BY <1>1 DEF Pair

LEMMA InsertCandidateInv ==
    ASSUME IInv, NEW j \in Jobs, InsertCandidate(j)
    PROVE  IInv'
<1> DEFINE x == [job[j] EXCEPT !.step = "merge"]
<1>1. TypeOK /\ JobInv(j) /\ job[j] \in Job /\ "merge" \in Steps
  BY DEF IInv, TypeOK, Steps
<1>2. /\ j[1] # "promote" /\ job[j].state = "live" /\ job[j].step = "insert"
      /\ UNCHANGED <<silver, gold, errors, tasks, left>>
  BY DEF InsertCandidate, At
<1>3. job[j].tries < Attempts /\ DeduplicatorInv(j)
  BY <1>1, <1>2 DEF JobInv
<1>4. /\ x \in Job /\ x.state = "live" /\ x.tries = job[j].tries /\ x.step = "merge"
      /\ x.other = job[j].other /\ x.auto = job[j].auto
  BY <1>1, <1>2, StepSet
<1>5. job' = [job EXCEPT ![j] = x]
  BY DEF InsertCandidate
<1> HIDE DEF x
<1>6. candidates' \subseteq Companies \X Companies
  BY <1>1, <1>2, PairTyped DEF InsertCandidate, TypeOK
<1>7. TypeOK' /\ job'[j] = x
  BY <1>1, <1>2, <1>4, <1>5, <1>6 DEF TypeOK
<1>8. Disturbed' <=> Disturbed
  BY <1>2 DEF Disturbed
<1>9. JobInv(j)'
  <2>1. DeduplicatorInv(j)'
    BY <1>2, <1>3, <1>4, <1>7, <1>8 DEF DeduplicatorInv
  <2> QED
    BY <1>2, <1>3, <1>4, <1>7, <2>1 DEF JobInv
<1> QED
  BY <1>2, <1>4, <1>5, <1>7, <1>9, JobStepInv

\* A job that ends while records are merged.
LEMMA MergeInv ==
    ASSUME IInv, NEW js \in SUBSET Jobs, UNCHANGED gold, TypeOK',
           UNCHANGED silver \/ Disturbed',
           Disturbed => Disturbed',
           \A c \in Companies : /\ silver'[c].cui = silver[c].cui
                                /\ silver'[c].gold = silver[c].gold
                                /\ silver'[c].master => silver[c].master,
           \A j \in Jobs \ js : job'[j] = job[j],
           \A j \in js : job'[j].state # "live" /\ (j[1] = "promote" => job'[j].state # "done")
    PROVE  IInv'
<1>1. GoldGrows
  BY DEF GoldGrows
<1>2. MastersDiffer'
  BY MastersKept DEF IInv
<1>3. ASSUME NEW c \in Companies PROVE SilverMoves(c) /\ Backed(c)
  <2>1. SilverMoves(c)
    BY DEF SilverMoves
  <2> QED
    BY <1>1, <2>1, BackedKept DEF IInv
<1>4. ASSUME NEW c \in Companies, job'[<<"promote", c, 0>>].state = "done"
      PROVE  job[<<"promote", c, 0>>].state = "done"
  BY <1>4, JobIds
<1>5. \A j \in Jobs : job'[j] = job[j] \/ JobInv(j)'
  BY JobEnded
<1> QED
  BY <1>1, <1>2, <1>3, <1>4, <1>5, StepInv

LEMMA MergeExactInv ==
    ASSUME IInv, NEW j \in Jobs, MergeExact(j)
    PROVE  IInv'
<1>1. TypeOK /\ JobInv(j)
  BY DEF IInv
<1>2. /\ j[1] = "exact" /\ job[j].state = "live" /\ job[j].step = "merge"
      /\ UNCHANGED <<gold, candidates, errors, tasks, left>>
      /\ job' = [job EXCEPT ![j] = Ended(j)]
  BY DEF MergeExact, At
<1>3. DeduplicatorInv(j) /\ Pair(j)[1] \in Companies /\ Pair(j)[2] \in Companies
  BY <1>1, <1>2, PairTyped DEF JobInv
<1> PICK m \in Companies, s \in Companies : m = Pair(j)[1] /\ s = Pair(j)[2]
  BY <1>3
<1> DEFINE row == [silver[s] EXCEPT !.master = FALSE, !.masterOf = m]
<1>4. silver' = IF job[j].auto THEN [silver EXCEPT ![s] = row] ELSE silver
  BY DEF MergeExact
<1>5. silver[s] \in Silver
  BY <1>1 DEF TypeOK
<1>6. row \in Silver /\ row.cui = silver[s].cui /\ row.gold = silver[s].gold
  BY <1>5 DEF Silver
<1>7. row.moved = silver[s].moved /\ ~row.master
  BY Zenon, <1>5 DEF Silver
<1> HIDE DEF row
<1>8. /\ silver' \in [Companies -> Silver]
      /\ \A c \in Companies : /\ silver'[c].cui = silver[c].cui
                              /\ silver'[c].gold = silver[c].gold
                              /\ silver'[c].moved = silver[c].moved
                              /\ silver'[c].master => silver[c].master
  BY <1>1, <1>4, <1>6, <1>7 DEF TypeOK
<1>9. /\ Ended(j) \in Job /\ Ended(j).state # "live"
      /\ job' \in [Jobs -> Job] /\ job'[j] = Ended(j) /\ \A i \in Jobs \ {j} : job'[i] = job[i]
  BY <1>1, <1>2, EndedTyped DEF TypeOK
<1>10. TypeOK'
  BY <1>1, <1>2, <1>8, <1>9 DEF TypeOK
<1>11. Disturbed => Disturbed'
  BY <1>2, <1>8 DEF Disturbed
<1>12. UNCHANGED silver \/ Disturbed'
  BY <1>2, <1>3, <1>4, <1>11 DEF DeduplicatorInv
<1>13. /\ {j} \in SUBSET Jobs
       /\ \A i \in {j} : job'[i].state # "live" /\ (i[1] = "promote" => job'[i].state # "done")
  BY <1>2, <1>9
<1> QED
  BY <1>2, <1>8, <1>9, <1>10, <1>11, <1>12, <1>13, MergeInv

LEMMA MergeFuzzyInv ==
    ASSUME IInv, NEW j \in Jobs, MergeFuzzy(j)
    PROVE  IInv'
<1>1. TypeOK /\ MastersDiffer
  BY DEF IInv
<1>2. /\ j[1] = "fuzzy" /\ job[j].state = "live" /\ job[j].step = "merge"
      /\ UNCHANGED <<silver, gold, candidates, errors, left>>
      /\ job' = [job EXCEPT ![j] = Ended(j)]
  BY DEF MergeFuzzy, At
<1>3. tasks' \subseteq ({"quality"} \X Companies) \cup ({"dedup"} \X Companies \X Companies)
  BY <1>1, <1>2, PairTyped DEF MergeFuzzy, TypeOK
<1>4. Ended(j) \in Job /\ Ended(j).state # "live"
  BY EndedTyped
<1>5. TypeOK' /\ job'[j] = Ended(j)
  BY <1>1, <1>2, <1>3, <1>4, JobTyped DEF TypeOK
<1>6. JobInv(j)'
  BY <1>4, <1>5, JobEnded
<1> QED
  BY <1>2, <1>4, <1>5, <1>6, JobStepInv

LEMMA DecideInv ==
    ASSUME IInv, NEW c \in Companies, NEW d \in Companies, Decide(c, d)
    PROVE  IInv'
<1>1. PICK m \in Companies :
        silver' = [silver EXCEPT ![IF m = c THEN d ELSE c].master = FALSE,
                                 ![IF m = c THEN d ELSE c].masterOf = m,
                                 ![IF m = c THEN d ELSE c].contacts = {},
                                 ![m].contacts = @ \cup silver[IF m = c THEN d ELSE c].contacts]
  BY DEF Decide
<1> PICK s \in Companies : s = IF m = c THEN d ELSE c
  OBVIOUS
<1>2. TypeOK
  BY DEF IInv
<1>3. UNCHANGED <<gold, candidates, job, errors, tasks>>
  BY DEF Decide
<1>4. /\ left' \in [calls : 0..MaxCalls, rounds : 0..MaxRounds, decisions : 0..MaxDecisions]
      /\ left'.decisions < MaxDecisions
  <2> DEFINE b == [left EXCEPT !.calls = @ - 1, !.decisions = @ - 1]
  <2>1. left' = b
    BY DEF Decide
  <2>2. /\ left.calls \in 0..MaxCalls /\ left.rounds \in 0..MaxRounds
        /\ left.decisions \in 0..MaxDecisions
    BY <1>2 DEF TypeOK
  <2>3. /\ MaxCalls \in Nat /\ MaxDecisions \in Nat
        /\ left.calls > 0 /\ left.decisions > 0
    BY ConstantsAssumption DEF Decide
  <2>4. left.calls - 1 \in 0..MaxCalls /\ left.decisions - 1 \in 0..MaxDecisions
    BY <2>2, <2>3
  <2>5. /\ b \in [calls : 0..MaxCalls, rounds : 0..MaxRounds, decisions : 0..MaxDecisions]
        /\ b.decisions = left.decisions - 1
    BY <1>2, <2>2, <2>4 DEF TypeOK
  <2> QED
    BY <2>1, <2>2, <2>3, <2>5
<1>5. Disturbed'
  BY <1>4 DEF Disturbed
<1> DEFINE merged == [silver[s] EXCEPT !.master = FALSE, !.masterOf = m, !.contacts = {}]
           half == [silver EXCEPT ![s] = merged]
           row == [half[m] EXCEPT !.contacts = @ \cup silver[s].contacts]
<1>6. silver' = [half EXCEPT ![m] = row]
  BY <1>1
<1>7. silver[s] \in Silver /\ merged \in Silver
      /\ merged.cui = silver[s].cui /\ merged.gold = silver[s].gold
  <2>1. silver[s] \in Silver
    BY <1>2 DEF TypeOK
  <2>2. {} \in SUBSET Contacts
    OBVIOUS
  <2> QED
    BY <2>1, <2>2 DEF Silver
<1>8. ~merged.master
  BY Zenon, <1>7 DEF Silver
<1> HIDE DEF merged
<1>9. /\ half \in [Companies -> Silver]
      /\ \A e \in Companies : /\ half[e].cui = silver[e].cui /\ half[e].gold = silver[e].gold
                              /\ half[e].master => silver[e].master
  BY <1>2, <1>7, <1>8 DEF TypeOK
<1> HIDE DEF half
<1>10. row \in Silver /\ row.cui = half[m].cui /\ row.gold = half[m].gold
  BY <1>7, <1>9 DEF Silver
<1>11. row.master = half[m].master
  BY Zenon, <1>9 DEF Silver
<1> HIDE DEF row
<1>12. /\ silver' \in [Companies -> Silver]
       /\ \A e \in Companies : /\ silver'[e].cui = silver[e].cui /\ silver'[e].gold = silver[e].gold
                               /\ silver'[e].master => silver[e].master
  BY <1>6, <1>9, <1>10, <1>11
<1>13. TypeOK'
  BY <1>2, <1>3, <1>4, <1>12 DEF TypeOK
<1>14. {} \in SUBSET Jobs /\ \A j \in Jobs \ {} : job'[j] = job[j]
  BY <1>3
<1> QED
  BY <1>3, <1>5, <1>12, <1>13, <1>14, MergeInv

-----------------------------------------------------------------------------
(* Failures *)

LEMMA RetriedTyped ==
    ASSUME TypeOK, NEW j \in Jobs, NEW made \in 1..Attempts
    PROVE  /\ Retried(j, made) \in Job /\ Retried(j, made).state # "done"
           /\ Retried(j, made).state = "live" =>
                /\ made < Attempts
                /\ Retried(j, made).tries = made /\ Retried(j, made).step = "read"
                /\ Retried(j, made).force = job[j].force
<1>1. Attempts \in Nat
  BY ConstantsAssumption
<1>2. job[j].force \in BOOLEAN
  BY DEF TypeOK, Job
<1>3. PICK f \in BOOLEAN : f = job[j].force
  BY <1>2
<1>4. PICK y \in Job : y = Started(f)
  BY StartedTyped
<1>5. y.state = "live" /\ y.step = "read" /\ y.force = f
  BY <1>4, StartedTyped
<1> DEFINE x == [y EXCEPT !.tries = made]
<1>6. x \in Job /\ x.state = "live" /\ x.tries = made /\ x.step = "read"
  BY <1>1, <1>5 DEF Job
<1>7. x.force = f
  BY Zenon, <1>5 DEF Job
<1> DEFINE z == [NoJob EXCEPT !.state = "failed"]
<1>8. z \in Job /\ z.state = "failed"
  BY NoJobTyped DEF Job
<1>9. Retried(j, made) = IF made < Attempts THEN x ELSE IF j[3] = 0 THEN z ELSE NoJob
  BY <1>3, <1>4 DEF Retried
<1> HIDE DEF x, z
<1>10. CASE made < Attempts
  BY <1>3, <1>6, <1>7, <1>9, <1>10
<1>11. CASE ~(made < Attempts)
  BY <1>8, <1>9, <1>11, NoJobTyped
<1> QED
  BY <1>10, <1>11

LEMMA ThrowInv ==
    ASSUME IInv, NEW j \in Jobs, NEW failures \in SUBSET FailureTypes,
           job[j].state = "live", Throw(j, failures)
    PROVE  IInv'
<1>1. TypeOK /\ JobInv(j) /\ j[1] \in {"promote", "exact", "fuzzy"} /\ j[2] \in Companies
  BY JobParts DEF IInv
<1> DEFINE made == job[j].tries + 1
<1>2. made \in 1..Attempts
  BY <1>1, ConstantsAssumption DEF JobInv, TypeOK, Job
<1>3. /\ job' = [job EXCEPT ![j] = Retried(j, made)]
      /\ UNCHANGED <<silver, gold, candidates, tasks, left>>
  BY DEF Throw
<1>4. job[j].force \in BOOLEAN
  BY <1>1 DEF TypeOK, Job
<1>5. errors' \subseteq FailureTypes \X {"promote", "exact", "fuzzy"} \X Companies
                          \X BOOLEAN \X (1..Attempts)
  <2>1. PICK f \in failures : errors' = errors \cup {<<f, j[1], j[2], job[j].force, made>>}
    BY DEF Throw
  <2> HIDE DEF made
  <2> QED
    BY <1>1, <1>2, <1>4, <2>1 DEF TypeOK
<1> HIDE DEF made
<1>6. PICK x \in Job : x = Retried(j, made)
  BY <1>1, <1>2, RetriedTyped
<1>7. /\ x.state # "done"
      /\ x.state = "live" => /\ made < Attempts
                             /\ x.tries = made /\ x.step = "read" /\ x.force = job[j].force
  BY <1>1, <1>2, <1>6, RetriedTyped
<1>8. job' = [job EXCEPT ![j] = x]
  BY <1>3, <1>6
<1>9. TypeOK' /\ job'[j] = x
  BY <1>1, <1>3, <1>5, <1>8 DEF TypeOK
<1>10. j[1] = "promote" /\ j[3] = 0 => job[j].force
  BY <1>1 DEF JobInv, PromoterInv
<1>11. JobInv(j)'
  BY <1>7, <1>9, <1>10 DEF JobInv, PromoterInv, DeduplicatorInv
<1> QED
  BY <1>3, <1>7, <1>8, <1>9, <1>11, JobStepInv

LEMMA BreakInv ==
    ASSUME IInv, NEW j \in Jobs, Break(j)
    PROVE  IInv'
  BY ThrowInv, ConstantsAssumption DEF Break

LEMMA PairExistsInv ==
    ASSUME IInv, NEW j \in Jobs, PairExists(j)
    PROVE  IInv'
<1>1. Failures \cap {"permanent", "validation"} \in SUBSET FailureTypes
  BY DEF FailureTypes
<1> QED
  BY <1>1, ThrowInv DEF PairExists, At

LEMMA HandleInv ==
    ASSUME IInv, NEW e \in errors, Handle(e)
    PROVE  IInv'
<1>1. TypeOK /\ MastersDiffer
  BY DEF IInv
<1>2. e \in FailureTypes \X {"promote", "exact", "fuzzy"} \X Companies \X BOOLEAN \X (1..Attempts)
  BY <1>1 DEF TypeOK
<1>3. e[3] \in Companies /\ e[4] \in BOOLEAN
  BY <1>2
<1> PICK c \in Companies, f \in BOOLEAN : c = e[3] /\ f = e[4]
  BY <1>3
<1>4. /\ errors' \subseteq errors
      /\ UNCHANGED <<gold, candidates, left>>
  BY DEF Handle
<1>5. CASE e[1] = "transient" /\ e[5] < Attempts
  <2>1. Free(c) # {} /\ job' = Anew(job, c, f) /\ UNCHANGED <<silver, tasks>>
    BY <1>5 DEF Handle
  <2>2. job' \in [Jobs -> Job] /\ \A j \in Jobs : job'[j] = job[j] \/ Begun(j)
    BY <1>1, <2>1, AnewAdds DEF Begun
  <2>3. TypeOK'
    BY <1>1, <1>4, <2>1, <2>2 DEF TypeOK
  <2> QED
    BY <1>1, <1>4, <2>1, <2>2, <2>3, SilverSame, QueueInv
<1>6. CASE e[1] = "permanent"
  <2>1. silver' = [silver EXCEPT ![c].promotion = "blocked"] /\ UNCHANGED <<job, tasks>>
    BY <1>6 DEF Handle
  <2>2. /\ silver' \in [Companies -> Silver]
        /\ Disturbed => Disturbed'
        /\ MastersDiffer'
        /\ \A d \in Companies : SilverMoves(d) /\ silver'[d].gold = silver[d].gold
    BY <1>1, <1>4, <2>1, Decided
  <2>3. TypeOK'
    BY <1>1, <1>4, <2>1, <2>2 DEF TypeOK
  <2> QED
    BY <1>4, <2>1, <2>2, <2>3, QueueInv
<1>7. CASE e[1] # "permanent" /\ ~(e[1] = "transient" /\ e[5] < Attempts)
  <2>1. UNCHANGED <<silver, job>> /\ (tasks' = tasks \/ tasks' = tasks \cup {<<"quality", c>>})
    BY <1>7 DEF Handle
  <2>2. TypeOK'
    BY <1>1, <1>4, <2>1 DEF TypeOK
  <2> QED
    BY <1>1, <1>4, <2>1, <2>2, SilverSame, QueueInv
<1> QED
  BY <1>5, <1>6, <1>7

LEMMA ForgetInv ==
    ASSUME IInv, NEW j \in Jobs, Forget(j)
    PROVE  IInv'
<1>1. TypeOK /\ NoJob \in Job /\ NoJob.state = "absent"
  BY NoJobTyped DEF IInv
<1>2. UNCHANGED <<silver, gold, candidates, errors, tasks, left>> /\ job' = [job EXCEPT ![j] = NoJob]
  BY DEF Forget
<1>3. TypeOK' /\ job'[j] = NoJob
  BY <1>1, <1>2, JobTyped DEF TypeOK
<1>4. JobInv(j)'
  BY <1>1, <1>3, JobEnded
<1> QED
  BY <1>1, <1>2, <1>3, <1>4, JobStepInv

-----------------------------------------------------------------------------
(* Every step *)

LEMMA WorkInv ==
    ASSUME IInv, NEW j \in Jobs, Work(j)
    PROVE  IInv'
<1>1. CASE Promoter(j)
  BY <1>1, ReadSilverInv, LookForGoldInv, UpsertInv, CopyContactsInv, MarkPromotedInv DEF Promoter
<1>2. CASE Deduplicator(j)
  BY <1>2, ReadCompanyInv, FindExactInv, FindFuzzyInv, InsertCandidateInv, MergeExactInv,
     MergeFuzzyInv DEF Deduplicator
<1>3. CASE PairExists(j)
  BY <1>3, PairExistsInv
<1> QED
  BY <1>1, <1>2, <1>3 DEF Work

LEMMA StutterInv == IInv /\ UNCHANGED vars => IInv'
  BY DEF IInv, vars, TypeOK, MastersDiffer, SilverInv, JobInv, PromoterInv, DeduplicatorInv,
     Disturbed

LEMMA NextInv == IInv /\ [Next]_vars => IInv'
<1> SUFFICES ASSUME IInv, [Next]_vars PROVE IInv'
  OBVIOUS
<1>1. CASE UNCHANGED vars
  BY <1>1, StutterInv
<1>2. ASSUME NEW c \in Companies,
             Rollup(c) \/ AskPromotion(c) \/ QualityReview(c) \/ PostEnrichment(c) \/ WriteCui(c)
      PROVE  IInv'
  BY <1>2, RollupInv, AskInv, QualityReviewInv, PostEnrichmentInv, WriteCuiInv
<1>3. CASE Monitor
  BY <1>3, MonitorInv
<1>4. ASSUME NEW c \in Companies, NEW d \in Companies, DedupReview(c, d) \/ Decide(c, d)
      PROVE  IInv'
  BY <1>4, DedupReviewInv, DecideInv
<1>5. ASSUME NEW j \in Jobs, Work(j) \/ Break(j) \/ Forget(j) PROVE IInv'
  BY <1>5, WorkInv, BreakInv, ForgetInv
<1>6. ASSUME NEW e \in errors, Handle(e) PROVE IInv'
  BY <1>6, HandleInv
<1> QED
  BY <1>1, <1>2, <1>3, <1>4, <1>5, <1>6 DEF Next

LEMMA Invariant == Spec => []IInv
<1>1. Init => IInv
  BY InitInv
<1>2. IInv /\ [Next]_vars => IInv'
  BY NextInv
<1> QED
  BY <1>1, <1>2, PTL DEF Spec

-----------------------------------------------------------------------------
(* What is shown *)

\* Rows, jobs and tasks are what they are said to be.
THEOREM TypeCorrect == Spec => []TypeOK
<1>1. IInv => TypeOK
  BY DEF IInv
<1> QED
  BY <1>1, Invariant, PTL

\* A silver company that points to a gold company points to one that exists, and if it was
\* made of it, its contacts were copied: whatever promotions of the same cui, retries and
\* crashes fall between the insert, the copy and the mark of P2.
THEOREM PromotedCarries == Spec => []PromotedCarriesContacts
<1>1. IInv => PromotedCarriesContacts
  BY DEF IInv, SilverInv, PromotedCarriesContacts
<1> QED
  BY <1>1, Invariant, PTL

\* Nothing M1 does alone merges two records: an operator merged some before, or J1 replaced
\* an identifier that M1 had read.
THEOREM AutoMerge == Spec => []AutoMergeNeedsDecision
<1>1. IInv => AutoMergeNeedsDecision
  BY DEF IInv, SilverInv, Disturbed, AutoMergeNeedsDecision
<1> QED
  BY <1>1, Invariant, PTL

\* A forced promotion of a company that had an identifier, once it is done, found or made
\* its gold company, whatever P4 wrote between its attempts.
THEOREM ForcedGold == Spec => []ForcedMakesGold
<1>1. IInv => ForcedMakesGold
  BY DEF IInv, SilverInv, ForcedMakesGold
<1> QED
  BY <1>1, Invariant, PTL
===============================================================================
