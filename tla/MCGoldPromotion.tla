--------------------------- MODULE MCGoldPromotion ---------------------------
(***************************************************************************)
(* GoldPromotion on two records of one business: the older one has the     *)
(* identifier, the younger one a contact at the older one's address.  J1   *)
(* may find the identifier for the younger one, another for the older one. *)
(***************************************************************************)
EXTENDS GoldPromotion

CONSTANTS old, young, key, other, mail

MCAge == [c \in Companies |-> IF c = old THEN 1 ELSE 2]
MCFirstCui == [c \in Companies |-> IF c = old THEN key ELSE Nil]
MCFinds == {<<young, key>>, <<old, other>>}
MCContacts == [c \in Companies |-> IF c = young THEN {mail} ELSE {}]
MCAddress == [c \in Companies |-> IF c = old THEN {mail} ELSE {}]

\* M2 sees the older one as a likely duplicate of the younger one
MCSimilar == [p \in Companies \X Companies |-> IF p[1] = young THEN "likely" ELSE "unlike"]
=============================================================================
