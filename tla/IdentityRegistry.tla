--------------------------- MODULE IdentityRegistry ---------------------------
(***************************************************************************)
(* What company_identity_keys promises: an active key belongs to one       *)
(* company, and leaves it only together with all its other keys, when the  *)
(* company is merged into another.                                         *)
(***************************************************************************)
CONSTANTS Keys, Companies, Nil

VARIABLE owner  \* the company of each active key, or Nil

TypeOK == owner \in [Keys -> Companies \cup {Nil}]

Init == owner = [k \in Keys |-> Nil]

\* Keys that nobody owns are given to c
Claim(c, keys) ==
    /\ \A k \in keys : owner[k] = Nil
    /\ owner' = [k \in Keys |-> IF k \in keys THEN c ELSE owner[k]]

\* Everything that s owns goes to p, and new keys may come with it
Absorb(p, s, keys) ==
    /\ \A k \in keys : owner[k] = Nil
    /\ owner' = [k \in Keys |-> IF owner[k] = s \/ k \in keys THEN p ELSE owner[k]]

Next == \E c \in Companies, keys \in SUBSET Keys :
            Claim(c, keys) \/ \E s \in Companies \ {c} : Absorb(c, s, keys)

Spec == Init /\ [][Next]_owner
=============================================================================
